---------------------------- MODULE Spec2Model ----------------------------
(***************************************************************************)
(* A model of the OHSNAP rapid provisioning tools: the manifest tree       *)
(* builder and archiver of createSiteFiles.py, and the resumable,          *)
(* hash-verified download engine and disk manifest generator of            *)
(* masterDisks.py, with the lookups of OortCommon.py they rest on.         *)
(*                                                                         *)
(* Strings that the code takes apart (manifest paths) are sequences of     *)
(* tokens: "/" is the path separator, "_DOT." and "_AUTOGEN_" are the two  *)
(* substitution literals, every other token is a run of ordinary           *)
(* characters.  File contents are sequences of chunks or of bytes.         *)
(***************************************************************************)
EXTENDS Integers, Sequences, FiniteSets, TLC

(***************************************************************************)
(* Bounds of the model (not program constants).                            *)
(***************************************************************************)
\* entries of one scope's manifest
MaxEntries == 2
\* generateSitePackage calls made in one process
MaxBuilds == 2
\* bytes of a file on the mirror
RemoteSize == 2

(***************************************************************************)
(* OortCommon.py: constants and the host table.                            *)
(***************************************************************************)
DOMAIN_COMMON == "common"
DOMAIN_REALM == "realm"
DOMAIN_ROLE == "role"
DOMAIN_BOARD == "board"
DOMAIN_HOST == "host"

\* a variant of the order with the board scope after the host scope
DOMAINS_HostBeforeBoard ==
  << DOMAIN_COMMON, DOMAIN_REALM, DOMAIN_ROLE, DOMAIN_HOST, DOMAIN_BOARD >>

DOMAINS == <<DOMAIN_COMMON, DOMAIN_REALM, DOMAIN_ROLE, DOMAIN_BOARD, DOMAIN_HOST>>

\* the rows of HOSTMAP.csv as loaded by OortInit
gHostMap ==
  << [HOSTNAME |-> "edge01", REALM |-> "lab", ROLE |-> "router",
      BOARD |-> "apu2", ADMIN_IP |-> "10.0.0.1"],
     [HOSTNAME |-> "edge02", REALM |-> "lab", ROLE |-> "router",
      BOARD |-> "apu4", ADMIN_IP |-> "10.0.0.2"] >>

HOSTOPTIONS_KEY_DOMAIN_NAME == "domain-name"
HOSTOPTIONS_KEY_INSTALLURL == "etc-install-url"
HOSTOPTIONS_FILENAME == <<"_OPTIONS.json">>

\* the SYSARCH column of BOARDMAP.csv for the boards of the host table
sysArchNameForBoard(boardName) == "amd64"

\* names a caller may pass: the hosts of the table and one unknown name
RequestedHostnames == {"edge01", "edge02", "nohost"}

RECURSIVE FirstHostIndex(_, _)
FirstHostIndex(hostname, i) ==
  IF i > Len(gHostMap) THEN 0
  ELSE IF gHostMap[i].HOSTNAME = hostname THEN i
  ELSE FirstHostIndex(hostname, i + 1)

\* getHostDefinition: the first row with that hostname, or None (0)
getHostDefinition(hostname) == FirstHostIndex(hostname, 1)

(***************************************************************************)
(* masterDisks.py: constants.                                              *)
(***************************************************************************)
DOWNLOAD_ROOT_NAME == "mirror"
HASH_FILENAME == "SHA256"
HASH_SIGNED_FILENAME == "SHA256.sig"
SET_PACKAGE_DIR_LISTING_FILENAME == "index.txt"

\* the first two of the names of the list
SET_PACKAGE_NAMES == <<"bsd", "bsd.mp">>

SET_PACKAGE_OPTIONAL_NAMES == {"bsd.mp"}

HTTP_OK == 200
HTTP_PARTIAL_CONTENT == 206
HTTP_CONTINUABLE_RESPONSE_CODES == {HTTP_OK, HTTP_PARTIAL_CONTENT}

(***************************************************************************)
(* createSiteFiles.py: constants.                                          *)
(***************************************************************************)
SEP == "/"
MANIFEST_SUBSTITUTION_DOTFILE == "_DOT."
MANIFEST_SUBSTITUTION_AUTOGEN == "_AUTOGEN_"

ROOT_ABSPATH == <<SEP>>
INSTALL_SCRIPT_ABSPATH == <<SEP, "install.site">>
ETCHOSTS_APPEND_ABSPATH == <<SEP, "root", SEP, "post_install_hosts_append">>
AUTOGEN_FILENAME_PACKAGES == <<"_AUTOGEN_", "post_install_package_list.txt">>
AUTOGEN_FILENAME_SITE_INSTALL_APPEND == <<"_AUTOGEN_", "install.site">>

(***************************************************************************)
(* Path helpers (str.startswith, slicing, os.path.dirname / basename).     *)
(***************************************************************************)
StartsWithSep(path) == Len(path) > 0 /\ path[1] = SEP

RECURSIVE LastSepIndex(_, _)
LastSepIndex(path, i) ==
  IF i = 0 THEN 0
  ELSE IF path[i] = SEP THEN i
  ELSE LastSepIndex(path, i - 1)

Basename(path) ==
  LET k == LastSepIndex(path, Len(path))
  IN  SubSeq(path, k + 1, Len(path))

\* the directory holding an absolute path of the output tree
Dirname(path) ==
  LET k == LastSepIndex(path, Len(path))
  IN  IF k <= 1 THEN ROOT_ABSPATH ELSE SubSeq(path, 1, k - 1)

RECURSIVE ReplaceToken(_, _, _)
\* str.replace on a tokenised string: every occurrence of the literal old
\* becomes the tokens new
ReplaceToken(path, old, new) ==
  IF path = <<>> THEN <<>>
  ELSE (IF Head(path) = old THEN new ELSE <<Head(path)>>)
         \o ReplaceToken(Tail(path), old, new)

performSubstitutionsOnPath(path) ==
  ReplaceToken(ReplaceToken(path, MANIFEST_SUBSTITUTION_DOTFILE, <<".">>),
               MANIFEST_SUBSTITUTION_AUTOGEN, <<>>)

isAutogenFile(sourcePath) ==
  \E i \in 1..Len(sourcePath) : sourcePath[i] = MANIFEST_SUBSTITUTION_AUTOGEN

RECURSIVE ParseOctalFrom(_, _)
ParseOctalFrom(digits, acc) ==
  IF digits = <<>> THEN acc
  ELSE ParseOctalFrom(Tail(digits), acc * 8 + Head(digits))

\* int(field, 8): the value, or -1 where Python raises ValueError
ParseOctal(digits) ==
  IF digits = <<>> \/ \E i \in 1..Len(digits) : digits[i] > 7
  THEN -1
  ELSE ParseOctalFrom(digits, 0)

(***************************************************************************)
(* State.                                                                  *)
(***************************************************************************)
VARIABLES
  \* createSiteFiles.py globals
  gPermissionsMapping,       \* transformed abs path -> [user, group, perm]
  gInstallSiteScriptAppend,  \* the fragments accumulated, one chunk each
  \* generateSitePackage's position and locals
  sitePc,                    \* idle | domains | generate | archive | done | failed
  siteHost,                  \* the hostname argument
  di,                        \* index into DOMAINS of the scope in progress
  mi,                        \* rows of the current manifest processed so far
  duplicatePathPrevention,   \* the raw paths seen in the current manifest
  tree,                      \* the intermediate output tree: abs path -> node
  archive,                   \* the entries written to the overlay archive
  archiveState,              \* none | partial | complete
  \* history of the current build, for stating the properties
  firstListing,              \* abs path -> the first scope (in the order
                             \* common .. host) that listed it, and its row
  lastRegular,               \* abs path -> the last scope that listed it as
                             \* a regular file
  multiScope,                \* abs paths listed by two or more scopes
  rowsSeen,                  \* the raw paths read from the current manifest
  badRow,                    \* none | duplicate | relative: a row read in
                             \* this build repeats a path or is not absolute
  prevPc,                    \* sitePc when the current call began
  closedScopes,              \* scopes whose manifest was processed to its end
  builds,                    \* generateSitePackage calls made so far
  dirtyAtCall,               \* the globals were non-empty when the call began
  lastBuilt,                 \* the host of the call before the current one,
                             \* if that call returned
  \* the configuration directory in use: any (every manifest the row pools
  \* allow), sample (one small template) or given (one directory whose
  \* manifests are written out)
  configDir,
  \* masterDisks.py globals
  gVerifiedDownloads,        \* the set of verified destination paths
  gMissingOptionalPackageNames, \* kind -> set of remote filenames
  \* generateMasteringImageForHostname's position and locals
  masterPc,                  \* idle | download | stage | site | returned | failed
  masterHost,                \* the hostname argument
  ai,                        \* index of the artifact being downloaded
  setsDiskManifest,          \* the filenames of the sets-disk manifest
  \* the download directory: destination path -> file
  files,
  \* downloadResumableUrlIfNeeded's position and locals
  dlPc,                      \* none | transfer | verify | retransfer |
                             \* reverify | return | fatal
  downloadSucceeded,
  remoteHash,                \* the digest found in the hash listing
  hashListing,               \* filename -> the digest the hash listing fetched
                             \* for the host being mastered holds for it, for
                             \* the set files whose turn has come
  \* history, for stating the properties
  dlTrace,                   \* what the current call did, in order
  failedThisHost,            \* names whose transfer failed for this host
  missedBefore,              \* names whose transfer failed for earlier hosts
  installerDiskManifest,     \* the filenames of the installer-disk manifest
  completedCount,            \* main's count of hosts mastered
  \* OortCommon.py globals
  gBoardmap,                 \* None, or the set of board names entered so far
  hostOptions,               \* hostname -> the 'options' dict of its row of
                             \* gHostMap; None before loadHostOptions
  \* input
  boardmapList,              \* the board names of the rows of BOARDMAP.csv,
                             \* once the file has been read
  optionsFiles,              \* path of a scope's options file -> its content
  moreHosts,                 \* main's list holds hostnames after the current
  \* history, for stating the properties
  networkUsed,               \* a request was made, or a file or directory
                             \* created, for the host being mastered
  lastValue,                 \* the hostOptionsValue call just made, and its result
  lastPath,                  \* the rootRelativePathForDomainResource call just
                             \* made, and its result
  lastLookup,                \* the lookupFilenameInSHA256DirectoryTable call
                             \* just made, and its result
  gLatestOpenBsdStableVersion, \* None, or the stable version fetched
  remoteRelease,             \* the release the project's web site announces
                             \* and the snapshots directory holds
  versionPc,                 \* running | failed: the process calling
                             \* openBSDVersion
  firstVersion,              \* flavor -> what the first call for it returned
  lastVersion,               \* flavor -> what the latest call for it returned
  hostmapPc,                 \* start | loaded | failed: OortInit's loading of
                             \* the host table
  hostmapRows,               \* gHostMap as loaded from HOSTMAP.csv
  lastHostdef,               \* the hostname last looked up, the row
                             \* getHostDefinition returned and the address
                             \* the hosts file gives it
  lastEntry,                 \* the manifest row last resolved, and the paths
                             \* read and written for it
  autoinstallPc,             \* idle | building | built | staged: a build of
                             \* the host's autoinstall files and their staging
  autoinstallDir,            \* the filenames in the host's autoinstall
                             \* directory
  generatedFiles,            \* the filenames the build in progress wrote there
  stagedAutoinstall,         \* the filenames appended to the sets-disk manifest
  gAutoAcceptYes,            \* flashInstall.py's global
  flashPc,                   \* idle | erase | flash | eject | finished | raised
  flashCommands,             \* flashNode's list of dd commands
  flashIndex,                \* the index of the dd command whose turn it is
  flashLog                   \* the prompts answered and commands executed

siteVars ==
  << gPermissionsMapping, gInstallSiteScriptAppend, sitePc, siteHost, di,
     mi, duplicatePathPrevention, tree, archive, archiveState,
     firstListing, lastRegular, multiScope, rowsSeen, badRow, prevPc,
     closedScopes, builds, dirtyAtCall, lastBuilt >>

masterVars ==
  << configDir, gVerifiedDownloads, gMissingOptionalPackageNames, masterPc,
     masterHost, ai, setsDiskManifest, files, dlPc, downloadSucceeded,
     remoteHash, dlTrace, failedThisHost, missedBefore,
     installerDiskManifest, completedCount, gBoardmap, hostOptions,
     boardmapList, optionsFiles, moreHosts, networkUsed, lastValue, lastPath,
     hashListing >>

listingVars == << lastLookup >>

versionVars ==
  << gLatestOpenBsdStableVersion, remoteRelease, versionPc, firstVersion,
     lastVersion >>

hostmapVars == << hostmapPc, hostmapRows, lastHostdef >>

pathVars == << lastEntry >>

autoinstallVars ==
  << autoinstallPc, autoinstallDir, generatedFiles, stagedAutoinstall >>

flashVars ==
  << gAutoAcceptYes, flashPc, flashCommands, flashIndex, flashLog >>

toolVars ==
  << listingVars, versionVars, hostmapVars, pathVars, autoinstallVars,
     flashVars >>

\* the variables a call modelled on its own leaves alone
notListingVars ==
  << versionVars, hostmapVars, pathVars, autoinstallVars, flashVars >>
notVersionVars ==
  << listingVars, hostmapVars, pathVars, autoinstallVars, flashVars >>
notHostmapVars ==
  << listingVars, versionVars, pathVars, autoinstallVars, flashVars >>
notPathVars ==
  << listingVars, versionVars, hostmapVars, autoinstallVars, flashVars >>
notAutoinstallVars ==
  << listingVars, versionVars, hostmapVars, pathVars, flashVars >>
notFlashVars ==
  << listingVars, versionVars, hostmapVars, pathVars, autoinstallVars >>

vars == << siteVars, masterVars, toolVars >>

(***************************************************************************)
(* The configuration directory the builds read: which manifest rows may    *)
(* appear, and what lies at each scope's resource root.                    *)
(***************************************************************************)
P_ROOT == <<SEP>>
P_ROOTDIR == <<SEP, "root">>
P_HOSTS_APPEND == <<SEP, "root", SEP, "_AUTOGEN_", "post_install_hosts_append">>
P_SITE_APPEND == <<SEP, "_AUTOGEN_", "install.site">>
P_SITE_STATIC == <<SEP, "install.site">>
P_PROFILE == <<SEP, "root", SEP, "_DOT.", "profile">>
P_RELATIVE == <<"root", SEP, "_DOT.", "profile">>
P_PACKAGES == <<SEP, "root", SEP, "_AUTOGEN_", "post_install_package_list.txt">>
P_PACKAGES_STATIC == <<SEP, "root", SEP, "post_install_package_list.txt">>

\* the rows a scope's manifest may hold.  Of the sample configuration: the
\* two directories in the common scope, the hosts file in the role scope,
\* the install script in the host scope, one plain file in the others.  Of
\* any configuration: the directories, the install script, the plain file,
\* the package list as a plain file and a relative path in the common
\* scope; the generated files, the plain file and the package list in the
\* role scope; the install script, the plain file and a relative path in
\* the host scope; the plain file in the realm and board scopes
ManifestPaths(domain) ==
  IF configDir = "sample"
  THEN (IF domain = DOMAIN_COMMON THEN { P_ROOT, P_ROOTDIR }
        ELSE IF domain = DOMAIN_ROLE THEN { P_HOSTS_APPEND }
        ELSE IF domain = DOMAIN_HOST THEN { P_SITE_APPEND, P_SITE_STATIC }
        ELSE { P_PROFILE })
  ELSE IF domain = DOMAIN_COMMON
  THEN { P_ROOT, P_ROOTDIR, P_SITE_APPEND, P_SITE_STATIC, P_PROFILE,
         P_PACKAGES_STATIC, P_RELATIVE }
  ELSE IF domain = DOMAIN_ROLE
  THEN { P_HOSTS_APPEND, P_SITE_APPEND, P_PROFILE, P_PACKAGES }
  ELSE IF domain = DOMAIN_HOST
  THEN { P_SITE_APPEND, P_SITE_STATIC, P_PROFILE, P_RELATIVE }
  ELSE { P_PROFILE }

\* the USER, GROUP and PERM fields each scope's manifest gives its rows
OwnerFields(domain) ==
  IF domain = DOMAIN_COMMON
  THEN [USER |-> "root", GROUP |-> "wheel", PERM |-> <<6, 4, 4>>]
  ELSE IF domain = DOMAIN_REALM
  THEN [USER |-> "root", GROUP |-> "wheel", PERM |-> <<6, 0, 0>>]
  ELSE IF domain = DOMAIN_ROLE
  THEN [USER |-> "www", GROUP |-> "daemon", PERM |-> <<7, 5, 5>>]
  ELSE IF domain = DOMAIN_BOARD
  THEN [USER |-> "root", GROUP |-> "bin", PERM |-> <<5, 5, 5>>]
  ELSE [USER |-> "admin", GROUP |-> "staff", PERM |-> <<6, 4, 0>>]

\* the manifests of the given configuration directory, by the paths of
\* their rows: the directories in the common scope, a plain file in the
\* realm scope, the package list and the hosts file in the role scope,
\* nothing in the board scope, the install script in the host scope
GivenManifestPaths(domain) ==
  IF domain = DOMAIN_COMMON THEN << P_ROOT, P_ROOTDIR >>
  ELSE IF domain = DOMAIN_REALM THEN << P_PROFILE >>
  ELSE IF domain = DOMAIN_ROLE THEN << P_PACKAGES, P_HOSTS_APPEND >>
  ELSE IF domain = DOMAIN_BOARD THEN << >>
  ELSE << P_SITE_APPEND >>

\* the rows loadCSV returns for a scope's manifest of the given directory
GivenManifest(domain) ==
  [i \in 1..Len(GivenManifestPaths(domain)) |->
     [ABSPATH |-> GivenManifestPaths(domain)[i],
      USER |-> OwnerFields(domain).USER,
      GROUP |-> OwnerFields(domain).GROUP, PERM |-> OwnerFields(domain).PERM]]

\* the rows loadCSV can return for a scope's manifest
ManifestRows(domain) ==
  { [ABSPATH |-> p, USER |-> OwnerFields(domain).USER,
     GROUP |-> OwnerFields(domain).GROUP, PERM |-> OwnerFields(domain).PERM] :
      p \in ManifestPaths(domain) }

\* the scope-local script fragment <scope root>/install.site
HasInstallSiteFragment(domain) == domain \in {DOMAIN_COMMON, DOMAIN_HOST}

\* the scope-local package table <scope root>/_PACKAGES.csv
HasPackagesFile(domain) == domain # DOMAIN_HOST

\* what os.path finds at <scope root>/<relPath>
SourceType(domain, relPath) ==
  IF relPath = Tail(P_ROOT) \/ relPath = Tail(P_ROOTDIR) THEN "dir"
  ELSE IF relPath = Tail(P_SITE_STATIC)
       THEN (IF HasInstallSiteFragment(domain) THEN "file" ELSE "missing")
  ELSE IF relPath = Tail(P_PROFILE)
       THEN (IF domain = DOMAIN_BOARD THEN "missing" ELSE "file")
  ELSE IF relPath = Tail(P_PACKAGES_STATIC)
       THEN (IF domain = DOMAIN_COMMON THEN "file" ELSE "missing")
  ELSE "missing"


DirNode == [type |-> "dir", content |-> <<>>]
FileNode(content) == [type |-> "file", content |-> content]

\* tempfile.mkdtemp: a fresh directory holding nothing
EmptyTree == [p \in {ROOT_ABSPATH} |-> DirNode]

EmptyMap == [p \in {} |-> 0]

Put(f, k, v) == [x \in (DOMAIN f) \cup {k} |-> IF x = k THEN v ELSE f[x]]

IsDir(t, p) == p \in DOMAIN t /\ t[p].type = "dir"
IsFile(t, p) == p \in DOMAIN t /\ t[p].type = "file"

(***************************************************************************)
(* OortCommon.py: scope resources and host options.                        *)
(***************************************************************************)
\* os.path.join of two components: an absolute second component discards
\* the first
PathJoin(a, b) ==
  IF StartsWithSep(b) THEN b
  ELSE IF a = <<>> \/ a[Len(a)] = SEP THEN a \o b
  ELSE a \o <<SEP>> \o b

\* `if domainRelativePath.startswith('/'): domainRelativePath = ...[1:]`
StripLeadingSep(path) == IF StartsWithSep(path) THEN Tail(path) ELSE path

\* the directory of a scope's resources for a host
DomainRoot(domain, hostdef) ==
  IF domain = DOMAIN_COMMON THEN <<DOMAIN_COMMON>>
  ELSE IF domain = DOMAIN_REALM THEN PathJoin(<<DOMAIN_REALM>>, <<hostdef.REALM>>)
  ELSE IF domain = DOMAIN_ROLE THEN PathJoin(<<DOMAIN_ROLE>>, <<hostdef.ROLE>>)
  ELSE IF domain = DOMAIN_BOARD THEN PathJoin(<<DOMAIN_BOARD>>, <<hostdef.BOARD>>)
  ELSE PathJoin(<<DOMAIN_HOST>>, <<hostdef.HOSTNAME>>)

\* the path of a scope's resource, or None (<<>>) for a name that is no scope
rootRelativePathForDomainResource(domain, hostdef, domainRelativePath) ==
  IF \E i \in 1..Len(DOMAINS) : DOMAINS[i] = domain
  THEN PathJoin(DomainRoot(domain, hostdef), StripLeadingSep(domainRelativePath))
  ELSE <<>>

\* an options file: absent, or the JSON object it holds
NoFile == [isfile |-> FALSE, json |-> EmptyMap]
JsonFile(object) == [isfile |-> TRUE, json |-> object]

\* the paths at which loadHostOptions looks for options files
OptionsPaths ==
  { rootRelativePathForDomainResource(DOMAINS[d], gHostMap[h], HOSTOPTIONS_FILENAME) :
      d \in 1..Len(DOMAINS), h \in 1..Len(gHostMap) }

\* a variant of the overlay in which a key keeps its first value
UpdateKeepingFirst(options, object) ==
  [k \in (DOMAIN options) \cup (DOMAIN object) |->
     IF k \in DOMAIN options THEN options[k] ELSE object[k]]

\* dict.update: the keys of object replace those of options
Update(options, object) ==
  [k \in (DOMAIN options) \cup (DOMAIN object) |->
     IF k \in DOMAIN object THEN object[k] ELSE options[k]]

RECURSIVE OptionsAfter(_, _, _)
\* the options dict of a host after the first n scopes of DOMAINS
OptionsAfter(filesByPath, hostdef, n) ==
  IF n = 0 THEN EmptyMap
  ELSE LET before == OptionsAfter(filesByPath, hostdef, n - 1)
           hostOptionsFilepath ==
             rootRelativePathForDomainResource(DOMAINS[n], hostdef,
                                               HOSTOPTIONS_FILENAME)
       IN  IF filesByPath[hostOptionsFilepath].isfile
           THEN Update(before, filesByPath[hostOptionsFilepath].json)
           ELSE before

\* the 'options' field loadHostOptions gives every row of gHostMap
loadHostOptions(filesByPath) ==
  [hostname \in { gHostMap[h].HOSTNAME : h \in 1..Len(gHostMap) } |->
     OptionsAfter(filesByPath, gHostMap[getHostDefinition(hostname)],
                  Len(DOMAINS))]

\* the options files of the sample configuration: each host's own scope
\* names its mirror
SampleOptionsFiles ==
  [path \in OptionsPaths |->
     IF path = <<DOMAIN_HOST, SEP, "edge01", SEP>> \o HOSTOPTIONS_FILENAME
     THEN JsonFile([k \in {HOSTOPTIONS_KEY_INSTALLURL} |-> "mirrorA"])
     ELSE IF path = <<DOMAIN_HOST, SEP, "edge02", SEP>> \o HOSTOPTIONS_FILENAME
     THEN JsonFile([k \in {HOSTOPTIONS_KEY_INSTALLURL} |-> "mirrorB"])
     ELSE NoFile]

\* the initial value of gBoardmap
None == [isNone |-> TRUE, keys |-> {}]

\* the rows BOARDMAP.csv may hold, by board name: one row for each board,
\* or a board entered twice
BoardTables ==
  { <<"apu2", "apu4">>, <<"apu2", "apu2", "apu4">>, <<"apu2", "apu4", "apu4">> }

\* a test that lets a board be entered again
isNeverDuplicateBoard(boardName, entered) == FALSE

\* the test that stops the loading of the board table
isDuplicateBoard(boardName, entered) == boardName \in entered

RECURSIVE BoardsEntered(_, _, _)
\* gBoardmap's keys when the loop of getBoardConfiguration ends or raises
BoardsEntered(rows, i, entered) ==
  IF i > Len(rows) \/ isDuplicateBoard(rows[i], entered) THEN entered
  ELSE BoardsEntered(rows, i + 1, entered \cup {rows[i]})

RECURSIVE BoardLoadRaises(_, _, _)
BoardLoadRaises(rows, i, entered) ==
  IF i > Len(rows) THEN FALSE
  ELSE IF isDuplicateBoard(rows[i], entered) THEN TRUE
  ELSE BoardLoadRaises(rows, i + 1, entered \cup {rows[i]})

(***************************************************************************)
(* The mirror and the download directory.                                  *)
(***************************************************************************)
\* the bytes the mirror serves for a file: byte i of it is i
RemoteContent == [i \in 1..RemoteSize |-> i]

\* a file of the download directory: not yet looked at, absent, or its bytes
Unknown == [st |-> "unknown", data |-> <<>>]
Absent == [st |-> "absent", data |-> <<>>]
File(data) == [st |-> "file", data |-> data]

\* what an earlier run may have left at a path: nothing, or a file that is
\* a prefix of the remote file, the whole of it, or one byte longer, with
\* its first byte possibly damaged (0)
LeftoverData ==
  { s \in UNION { [1..n -> 0..RemoteSize] : n \in 0..(RemoteSize + 1) } :
      \A i \in DOMAIN s :
        \/ i = 1 /\ s[i] = 0
        \/ i <= RemoteSize /\ s[i] = i
        \/ i > RemoteSize /\ s[i] = 0 }

Leftovers == {Absent} \cup { File(s) : s \in LeftoverData }

\* OortCommon.sha256 of a file's bytes; distinct contents, distinct digests
sha256(data) == [hex |-> data]

\* the digest the hash listing holds for a file: that of the bytes served,
\* or, when the listing is out of step with the mirror, of other bytes
\* None, where a digest is expected
NoHash == [hex |-> <<-1>>]

\* what the listing may hold for a file: the digest of the bytes served, of
\* other bytes, or no line
ListingEntries == {"current", "stale", "none"}

ListedDigest(entry) ==
  IF entry = "current" THEN sha256(RemoteContent)
  ELSE IF entry = "stale" THEN sha256([i \in 1..RemoteSize |-> 0])
  ELSE NoHash

INSTALL_IMAGE_NAME == "miniroot.img"

\* the downloads of downloadImagesForHost, in order: the install image, then
\* the set packages (the boards of the host table need no bootloader package)
Artifacts ==
  <<[name |-> INSTALL_IMAGE_NAME, kind |-> "install_system"]>>
    \o [i \in 1..Len(SET_PACKAGE_NAMES) |->
          [name |-> SET_PACKAGE_NAMES[i], kind |-> "sets_package"]]

\* os.path.join(outputDirs['system'], name)
SystemPath(hostname, name) ==
  << DOWNLOAD_ROOT_NAME,
     sysArchNameForBoard(gHostMap[getHostDefinition(hostname)].BOARD), name >>

AllPaths ==
  { SystemPath(gHostMap[h].HOSTNAME, Artifacts[a].name) :
      h \in 1..Len(gHostMap), a \in 1..Len(Artifacts) }

\* the state of masterDisks.py when the process starts
\* no option and no scope resource has been asked for yet
NoValueAsked == [hostname |-> "none", key |-> "none", defaultValue |-> <<>>,
                 value |-> <<>>]
NoPathAsked == [domain |-> "none", hostname |-> "none", name |-> <<>>,
                path |-> <<>>]
NoLookupAsked == [target |-> <<>>, listing |-> <<>>, raised |-> FALSE,
                  hash |-> <<>>]

OSFLAVOR_STABLE == "stable"
OSFLAVOR_CURRENT == "current"
OSFLAVORS == {OSFLAVOR_STABLE, OSFLAVOR_CURRENT}

\* the releases the remote source may announce during one process
FirstRelease == 77
MaxRelease == 80

\* no version, where a string of digits is expected
NoVersion == << >>

NoHostAsked == [hostname |-> "none", row |-> 0, hostip |-> "none"]

NoEntryResolved == [domain |-> "none", hostname |-> "none", absPath |-> <<>>,
                    refused |-> FALSE, sourcePath |-> <<>>, destPath |-> <<>>]

MasterIdle ==
  /\ lastLookup = NoLookupAsked
  /\ lastEntry = NoEntryResolved
  /\ autoinstallPc = "idle"
  /\ autoinstallDir = {}
  /\ generatedFiles = {}
  /\ stagedAutoinstall = << >>
  /\ gAutoAcceptYes = FALSE
  /\ flashPc = "idle"
  /\ flashCommands = << >>
  /\ flashIndex = 0
  /\ flashLog = << >>
  /\ hashListing = EmptyMap
  /\ hostmapPc = "start"
  /\ hostmapRows = << >>
  /\ lastHostdef = NoHostAsked
  /\ gLatestOpenBsdStableVersion = NoVersion
  /\ remoteRelease = FirstRelease
  /\ versionPc = "running"
  /\ firstVersion = [f \in OSFLAVORS |-> NoVersion]
  /\ lastVersion = [f \in OSFLAVORS |-> NoVersion]
  /\ gVerifiedDownloads = {}
  /\ gMissingOptionalPackageNames = EmptyMap
  /\ masterPc = "idle"
  /\ masterHost = "none"
  /\ ai = 0
  /\ setsDiskManifest = <<>>
  /\ files = [p \in AllPaths |-> Unknown]
  /\ dlPc = "none"
  /\ downloadSucceeded = FALSE
  /\ remoteHash = NoHash
  /\ dlTrace = <<>>
  /\ failedThisHost = {}
  /\ missedBefore = {}
  /\ installerDiskManifest = <<>>
  /\ completedCount = 0
  /\ gBoardmap = None
  /\ boardmapList = <<>>
  /\ moreHosts = TRUE
  /\ networkUsed = FALSE
  /\ lastValue = NoValueAsked
  /\ lastPath = NoPathAsked

\* OortInit has loaded the options of the sample configuration
SampleOptions ==
  /\ optionsFiles = SampleOptionsFiles
  /\ hostOptions = loadHostOptions(SampleOptionsFiles)

SiteIdle ==
  /\ gPermissionsMapping = EmptyMap
  /\ gInstallSiteScriptAppend = <<>>
  /\ sitePc = "idle"
  /\ siteHost = "none"
  /\ di = 0
  /\ mi = 0
  /\ duplicatePathPrevention = {}
  /\ tree = EmptyTree
  /\ archive = <<>>
  /\ archiveState = "none"
  /\ firstListing = EmptyMap
  /\ lastRegular = EmptyMap
  /\ multiScope = {}
  /\ rowsSeen = {}
  /\ badRow = "none"
  /\ prevPc = "idle"
  /\ closedScopes = {}
  /\ builds = 0
  /\ dirtyAtCall = FALSE
  /\ lastBuilt = "none"

\* a process that builds site packages from any configuration directory
SiteInit == SiteIdle /\ MasterIdle /\ SampleOptions /\ configDir = "any"

\* a process that builds site packages from the given configuration
\* directory
RebuildInit == SiteIdle /\ MasterIdle /\ SampleOptions /\ configDir = "given"

\* a process that masters disks from the sample configuration directory
MasterInit == SiteIdle /\ MasterIdle /\ SampleOptions /\ configDir = "sample"


(***************************************************************************)
(* createSiteFiles.py: the manifest tree builder.                          *)
(***************************************************************************)
Chunk(kind, from, src) == [kind |-> kind, from |-> from, src |-> src]

\* a file can be created or overwritten at p: its directory exists and p is
\* not itself a directory (open(p, 'w' / 'a'), shutil.copyfile)
Writable(t, p) == IsDir(t, Dirname(p)) /\ ~IsDir(t, p)

\* the result of one attempt to change the tree
Done(t, buf) == [ok |-> TRUE, tree |-> t, buf |-> buf, regular |-> FALSE]
Copied(t, buf) == [ok |-> TRUE, tree |-> t, buf |-> buf, regular |-> TRUE]
Raised(t, buf) == [ok |-> FALSE, tree |-> t, buf |-> buf, regular |-> FALSE]

processAutogenFile(sourcePath, destPath, domain, t, buf) ==
  LET sourceName == Basename(sourcePath)
  IN  IF sourceName = AUTOGEN_FILENAME_PACKAGES
      THEN IF HasPackagesFile(domain) /\ Writable(t, destPath)
           THEN LET old == IF IsFile(t, destPath) THEN t[destPath].content
                           ELSE <<>>
                IN  Done(Put(t, destPath,
                             FileNode(Append(old, Chunk("pkgs", domain, <<>>)))),
                         buf)
           ELSE Raised(t, buf)
      ELSE IF sourceName = AUTOGEN_FILENAME_SITE_INSTALL_APPEND
      THEN IF HasInstallSiteFragment(domain)
           THEN Done(t, Append(buf, Chunk("fragment", domain, <<>>)))
           ELSE Done(t, buf)
      ELSE Done(t, buf)

copyStaticEntry(relPath, destPath, domain, t, buf) ==
  LET kind == SourceType(domain, relPath)
  IN  IF kind = "missing" THEN Raised(t, buf)
      ELSE IF kind = "dir"
      THEN IF IsDir(t, destPath) THEN Done(t, buf)
           ELSE IF IsDir(t, Dirname(destPath)) /\ destPath \notin DOMAIN t
                THEN Done(Put(t, destPath, DirNode), buf)
                ELSE Raised(t, buf)
      ELSE IF Writable(t, destPath)
           THEN Copied(Put(t, destPath,
                           FileNode(<<Chunk("copy", domain, relPath)>>)), buf)
           ELSE Raised(t, buf)

\* a variant in which every listing replaces the record of the path
recordPermissionsLastIn(mapping, transformedAbsPath, override) ==
  Put(mapping, transformedAbsPath,
      [user |-> override.USER, group |-> override.GROUP,
       perm |-> ParseOctal(override.PERM)])

\* first-in precedence: only a path not yet in the mapping is recorded
recordPermissions(mapping, transformedAbsPath, override) ==
  IF transformedAbsPath \in DOMAIN mapping THEN mapping
  ELSE Put(mapping, transformedAbsPath,
           [user |-> override.USER, group |-> override.GROUP,
            perm |-> ParseOctal(override.PERM)])

\* the place of a scope in the precedence order common .. host
ScopeRank(domain) ==
  IF domain = "common" THEN 1
  ELSE IF domain = "realm" THEN 2
  ELSE IF domain = "role" THEN 3
  ELSE IF domain = "board" THEN 4
  ELSE 5

\* a variant in which the mapping of the call before is kept
KeptPermissionsMapping == gPermissionsMapping

\* generateSitePackage clears the per-host globals first
ClearedPermissionsMapping == EmptyMap
\* a variant in which the script text of the call before is kept
KeptInstallSiteScriptAppend == gInstallSiteScriptAppend

ClearedInstallSiteScriptAppend == <<>>

\* a variant that rejects only a path that is not absolute
rejectsRelativeRowOnly(absPath, seen) ==
  ~StartsWithSep(absPath)

\* the two checks that reject a manifest row
rejectsManifestRow(absPath, seen) ==
  absPath \in seen \/ ~StartsWithSep(absPath)

\* generateSitePackage up to its loop over DOMAINS
generateSitePackage(hostname) ==
  /\ builds' = builds + 1
  /\ dirtyAtCall' = (gPermissionsMapping # EmptyMap /\ gInstallSiteScriptAppend # <<>>)
  /\ lastBuilt' = IF sitePc = "done" THEN siteHost ELSE "none"
  /\ prevPc' = sitePc
  /\ gPermissionsMapping' = ClearedPermissionsMapping
  /\ gInstallSiteScriptAppend' = ClearedInstallSiteScriptAppend
  /\ siteHost' = hostname
  /\ firstListing' = EmptyMap
  /\ lastRegular' = EmptyMap
  /\ multiScope' = {}
  /\ rowsSeen' = {}
  /\ badRow' = "none"
  /\ closedScopes' = {}
  /\ mi' = 0
  /\ duplicatePathPrevention' = {}
  /\ tree' = EmptyTree
  /\ archive' = <<>>
  /\ archiveState' = "none"
  /\ \E templateOk \in BOOLEAN :
       IF getHostDefinition(hostname) = 0 \/ ~templateOk
       THEN sitePc' = "failed" /\ di' = 0
       ELSE sitePc' = "domains" /\ di' = 1

\* a caller (createSiteFiles.main, or a program importing the module) builds
\* the site package of a host
GenerateSitePackageStart(hostname) ==
  /\ sitePc \in {"idle", "done", "failed"}
  /\ builds < MaxBuilds
  /\ generateSitePackage(hostname)
  /\ UNCHANGED << masterVars, toolVars >>

\* the rows that may follow the n rows read of a scope's manifest: of the
\* given directory the next row of the file, of the others any row
NextManifestRows(domain, n) ==
  IF configDir = "given"
  THEN { GivenManifest(domain)[i] : i \in {n + 1} \cap DOMAIN GivenManifest(domain) }
  ELSE ManifestRows(domain)

\* one turn of generateHostConfigurationForDomain's loop over the manifest
\* of the scope in progress: the next row of the file is override
ProcessManifestEntry ==
  /\ sitePc = "domains"
  /\ mi < MaxEntries
  /\ \E override \in NextManifestRows(DOMAINS[di], mi) :
     LET domain == DOMAINS[di]
         absPath == override.ABSPATH
         relPath == Tail(absPath)
         sourcePath == <<domain, SEP>> \o relPath
         destPath == <<SEP>> \o performSubstitutionsOnPath(relPath)
         transformedAbsPath == performSubstitutionsOnPath(absPath)
         mapping == recordPermissions(gPermissionsMapping, transformedAbsPath,
                                      override)
         res == IF isAutogenFile(sourcePath)
                THEN processAutogenFile(sourcePath, destPath, domain, tree,
                                        gInstallSiteScriptAppend)
                ELSE copyStaticEntry(relPath, destPath, domain, tree,
                                     gInstallSiteScriptAppend)
     IN  /\ rowsSeen' = rowsSeen \cup {absPath}
         /\ badRow' = IF absPath \in rowsSeen THEN "duplicate"
                      ELSE IF absPath[1] # "/" THEN "relative"
                      ELSE badRow
         /\ IF rejectsManifestRow(absPath, duplicatePathPrevention)
            THEN /\ sitePc' = "failed"
                 /\ UNCHANGED << gPermissionsMapping, gInstallSiteScriptAppend,
                                 tree, firstListing, lastRegular, multiScope, mi,
                                 duplicatePathPrevention >>
            ELSE IF mapping[transformedAbsPath].perm < 0
            THEN /\ sitePc' = "failed"
                 /\ UNCHANGED << gPermissionsMapping, gInstallSiteScriptAppend,
                                 tree, firstListing, lastRegular, multiScope, mi,
                                 duplicatePathPrevention >>
            ELSE /\ duplicatePathPrevention' = duplicatePathPrevention \cup {absPath}
                 /\ multiScope' =
                      IF transformedAbsPath \in DOMAIN firstListing
                         /\ firstListing[transformedAbsPath].rank # ScopeRank(domain)
                      THEN multiScope \cup {transformedAbsPath}
                      ELSE multiScope
                 /\ gPermissionsMapping' = mapping
                 /\ gInstallSiteScriptAppend' = res.buf
                 /\ tree' = res.tree
                 /\ firstListing' =
                      IF transformedAbsPath \in DOMAIN firstListing
                         /\ firstListing[transformedAbsPath].rank <= ScopeRank(domain)
                      THEN firstListing
                      ELSE Put(firstListing, transformedAbsPath,
                               [rank |-> ScopeRank(domain), row |-> override])
                 /\ lastRegular' =
                      IF res.regular
                         /\ (transformedAbsPath \in DOMAIN lastRegular
                               => lastRegular[transformedAbsPath] <= ScopeRank(domain))
                      THEN Put(lastRegular, transformedAbsPath, ScopeRank(domain))
                      ELSE lastRegular
                 /\ IF res.ok THEN mi' = mi + 1 /\ sitePc' = sitePc
                    ELSE mi' = mi /\ sitePc' = "failed"
  /\ UNCHANGED << siteHost, di, archive, archiveState, prevPc, closedScopes,
                  builds, dirtyAtCall,
                  lastBuilt >>
  /\ UNCHANGED << masterVars, toolVars >>

\* the manifest has no further row: generateSitePackage's loop moves to the
\* next scope of DOMAINS, or leaves the loop after the last one
FinishDomain ==
  /\ sitePc = "domains"
  /\ NextManifestRows(DOMAINS[di], mi) = {} \/ configDir # "given"
  /\ closedScopes' = closedScopes \cup {DOMAINS[di]}
  /\ mi' = 0
  /\ duplicatePathPrevention' = {}
  /\ rowsSeen' = {}
  /\ IF di < Len(DOMAINS)
     THEN di' = di + 1 /\ sitePc' = sitePc
     ELSE di' = di /\ sitePc' = "generate"
  /\ UNCHANGED << gPermissionsMapping, gInstallSiteScriptAppend, siteHost,
                  tree, archive, archiveState, firstListing, lastRegular,
                  multiScope, badRow, prevPc, builds, dirtyAtCall,
                  lastBuilt >>
  /\ UNCHANGED << masterVars, toolVars >>

\* `for hostname, hostip in hosts.items()` rebinds the parameter: after the
\* loop hostname is the last key of the dict built from gHostMap
HostnameAfterHostsLoop(hostname) ==
  IF Len(gHostMap) = 0 THEN hostname ELSE gHostMap[Len(gHostMap)].HOSTNAME

\* the options dict of the first row with that hostname, or an empty dict
hostOptionsValue(hostname, key, defaultValue) ==
  IF getHostDefinition(hostname) = 0 \/ hostname \notin DOMAIN hostOptions
  THEN defaultValue
  ELSE IF key \in DOMAIN hostOptions[hostname] THEN hostOptions[hostname][key]
  ELSE defaultValue

ETCINSTALLURL_DEFAULT_URL == "https://cdn.openbsd.org/pub/OpenBSD"

generateHostInstallSiteFile ==
  /\ sitePc = "generate"
  /\ IF Writable(tree, ETCHOSTS_APPEND_ABSPATH)
     THEN LET t1 == Put(tree, ETCHOSTS_APPEND_ABSPATH,
                        FileNode(<<Chunk("hosts", "gHostMap", <<>>)>>))
              url == hostOptionsValue(HostnameAfterHostsLoop(siteHost),
                                      HOSTOPTIONS_KEY_INSTALLURL,
                                      ETCINSTALLURL_DEFAULT_URL)
          IN  IF Writable(t1, INSTALL_SCRIPT_ABSPATH)
              THEN /\ tree' = Put(t1, INSTALL_SCRIPT_ABSPATH,
                                  FileNode(<<Chunk("script", url, <<>>)>>
                                           \o gInstallSiteScriptAppend))
                   /\ sitePc' = "archive"
              ELSE tree' = t1 /\ sitePc' = "failed"
     ELSE tree' = tree /\ sitePc' = "failed"
  /\ UNCHANGED << gPermissionsMapping, gInstallSiteScriptAppend, siteHost, di,
                  mi, duplicatePathPrevention, archive, archiveState,
                  firstListing, lastRegular, multiScope, rowsSeen, badRow,
                  prevPc, closedScopes, builds, dirtyAtCall,
                  lastBuilt >>
  /\ UNCHANGED << masterVars, toolVars >>

(***************************************************************************)
(* createSiteFiles.py: the archiver.                                       *)
(***************************************************************************)
\* tar.add(sourceDir, arcname='/'): the root, then each directory's
\* sorted(os.listdir()) in turn; the order of the names this model knows
WalkOrder ==
  << <<SEP>>,
     <<SEP, "install.site">>,
     <<SEP, "root">>,
     <<SEP, "root", SEP, ".", "profile">>,
     <<SEP, "root", SEP, "post_install_hosts_append">>,
     <<SEP, "root", SEP, "post_install_package_list.txt">> >>

RECURSIVE TreeWalkFrom(_, _)
TreeWalkFrom(t, i) ==
  IF i > Len(WalkOrder) THEN <<>>
  ELSE (IF WalkOrder[i] \in DOMAIN t THEN <<WalkOrder[i]>> ELSE <<>>)
         \o TreeWalkFrom(t, i + 1)

TreeWalk(t) == TreeWalkFrom(t, 1)

\* the filter of makeTarFile: the member's absolute path is the lookup key
setArchivedFilePermissions(absPath) ==
  [name |-> <<".">> \o absPath,
   uname |-> gPermissionsMapping[absPath].user,
   gname |-> gPermissionsMapping[absPath].group,
   mode |-> gPermissionsMapping[absPath].perm]

RECURSIVE ArchivedSkipping(_, _)
\* a variant that leaves out a member that has no record and carries on
ArchivedSkipping(walk, i) ==
  IF i > Len(walk) THEN <<>>
  ELSE IF walk[i] \notin DOMAIN gPermissionsMapping
  THEN <<[name |-> <<".">> \o walk[i], uname |-> "", gname |-> "", mode |-> 0]>>
         \o ArchivedSkipping(walk, i + 1)
  ELSE <<setArchivedFilePermissions(walk[i])>> \o ArchivedSkipping(walk, i + 1)

RECURSIVE ArchivedPrefix(_, _)
\* the members written before the first one that has no record (KeyError)
ArchivedPrefix(walk, i) ==
  IF i > Len(walk) \/ walk[i] \notin DOMAIN gPermissionsMapping THEN <<>>
  ELSE <<setArchivedFilePermissions(walk[i])>> \o ArchivedPrefix(walk, i + 1)

makeTarFile ==
  /\ sitePc = "archive"
  /\ \E versionResolved \in BOOLEAN :
       IF ~versionResolved
       THEN sitePc' = "failed" /\ UNCHANGED << archive, archiveState >>
       ELSE LET walk == TreeWalk(tree)
                written == ArchivedPrefix(walk, 1)
            IN  /\ archive' = written
                /\ IF Len(written) = Len(walk)
                   THEN archiveState' = "complete" /\ sitePc' = "done"
                   ELSE archiveState' = "partial" /\ sitePc' = "failed"
  /\ UNCHANGED << gPermissionsMapping, gInstallSiteScriptAppend, siteHost, di,
                  mi, duplicatePathPrevention, tree, firstListing,
                  lastRegular, multiScope, rowsSeen, badRow, prevPc,
                  closedScopes, builds, dirtyAtCall,
                  lastBuilt >>
  /\ UNCHANGED << masterVars, toolVars >>


(***************************************************************************)
(* masterDisks.py: the download engine.                                    *)
(***************************************************************************)
\* the artifact of the call in progress, and its destination path
CurrentArtifact == Artifacts[ai]
destPath == SystemPath(masterHost, CurrentArtifact.name)

\* a variant that takes every download to be required
isDownloadAlwaysRequired(filename, kind) == TRUE

isDownloadRequired(filename, kind) ==
  ~(kind = "sets_package" /\ filename \in SET_PACKAGE_OPTIONAL_NAMES)

\* a variant that never finds a path in the cache
neverVerified(path) == FALSE

\* `destPath in gVerifiedDownloads`
alreadyVerified(path) == path \in gVerifiedDownloads

\* a variant that also resumes a file of the remote size
resumeDecisionInclusive(localSize, remoteSize) ==
  IF localSize <= remoteSize THEN "resume" ELSE "restart"

\* the comparison of the local file's size with the remote size
resumeDecision(localSize, remoteSize) ==
  IF localSize < remoteSize THEN "resume"
  ELSE IF localSize > remoteSize THEN "restart"
  ELSE "complete"

\* a variant that keeps the file whose digest differed
keptAfterMismatch(f) == f

\* os.remove(destPath) after a digest mismatch
removedAfterMismatch(f) == Absent

\* the condition under which the path joins gVerifiedDownloads
hashVerified(succeeded, localHash, listedHash) ==
  succeeded /\ localHash # NoHash /\ listedHash # NoHash /\ localHash = listedHash

\* one entry of the history of a call: a size comparison (n the local and m
\* the remote size), a removal, a transfer (from offset n, m bytes
\* received, the response code) or a digest comparison
Event(op, why, n, m, code) ==
  [op |-> op, why |-> why, n |-> n, m |-> m, code |-> code]

\* what c.perform() can do for a transfer that starts at offset: deliver
\* the rest of the file; break off after fewer bytes, raising, with the
\* response code of a transfer under way; or be refused, raising, no byte
\* written: the file is not there, or the range asked for is rejected
TransferOutcomes(offset) ==
  (IF offset < RemoteSize
   THEN {[how |-> "complete", got |-> RemoteSize - offset,
          code |-> IF offset = 0 THEN HTTP_OK ELSE HTTP_PARTIAL_CONTENT]}
        \cup {[how |-> "cut", got |-> k,
               code |-> IF offset = 0 THEN HTTP_OK ELSE HTTP_PARTIAL_CONTENT] :
                k \in 0..(RemoteSize - offset - 1)}
   ELSE {})
  \cup {[how |-> "refused", got |-> 0, code |-> 404]}
  \cup (IF offset > 0
       THEN {[how |-> "refused", got |-> 0, code |-> 416]}
       ELSE {})

\* the record of the listing fetched for the host, once the turn of a set
\* file has come: the digest its line holds
ListingRead(listing, artifact, digest) ==
  IF artifact.kind = "sets_package" THEN Put(listing, artifact.name, digest)
  ELSE listing

\* the call ends in an uncaught exception: the process ends with it
DownloadFatal ==
  /\ masterPc' = "failed"
  /\ dlPc' = "fatal"

\* downloadResumableUrlIfNeeded up to its first call of downloadResumableUrl
\* or, with a file of the remote size, up to the verification
BeginDownload ==
  /\ masterPc = "download"
  /\ dlPc = "none"
  /\ remoteHash' = NoHash
  /\ IF alreadyVerified(destPath)
     THEN /\ dlPc' = "return"
          /\ downloadSucceeded' = TRUE
          /\ dlTrace' = <<>>
          /\ \E entry \in ListingEntries :
               hashListing' = ListingRead(hashListing, CurrentArtifact,
                                          ListedDigest(entry))
          /\ UNCHANGED << files, masterPc >>
     ELSE /\ UNCHANGED hashListing
          /\ \E seen \in (IF files[destPath] = Unknown THEN Leftovers
                          ELSE {files[destPath]}) :
               IF seen.st = "file"
               THEN \E head \in {"length", "nolength", "raise"} :
                      IF head = "raise"
                      THEN /\ DownloadFatal
                           /\ files' = [files EXCEPT ![destPath] = seen]
                           /\ dlTrace' = <<>>
                           /\ downloadSucceeded' = FALSE
                      ELSE LET remoteSize == IF head = "length" THEN RemoteSize
                                             ELSE 0
                               localSize == Len(seen.data)
                               decision == resumeDecision(localSize, remoteSize)
                           IN  /\ dlTrace' =
                                    <<Event("head", "", localSize, remoteSize, 0)>>
                                    \o (IF decision = "restart"
                                        THEN <<Event("remove", "oversize", 0, 0, 0)>>
                                        ELSE <<>>)
                               /\ files' = [files EXCEPT ![destPath] =
                                              IF decision = "restart" THEN Absent
                                              ELSE seen]
                               /\ dlPc' = IF decision = "complete" THEN "verify"
                                          ELSE "transfer"
                               /\ downloadSucceeded' = (decision = "complete")
                               /\ masterPc' = masterPc
               ELSE /\ files' = [files EXCEPT ![destPath] = Absent]
                    /\ dlPc' = "transfer"
                    /\ dlTrace' = <<>>
                    /\ downloadSucceeded' = FALSE
                    /\ masterPc' = masterPc
  /\ UNCHANGED << configDir, installerDiskManifest, completedCount, gBoardmap,
                  hostOptions, boardmapList, optionsFiles, moreHosts,
                  networkUsed, lastValue, lastPath, gVerifiedDownloads, gMissingOptionalPackageNames,
                  masterHost, ai, setsDiskManifest, failedThisHost, missedBefore >>
  /\ UNCHANGED << siteVars, toolVars >>

\* downloadResumableUrl, and what its caller does with a failure it returns
downloadResumableUrl ==
  /\ dlPc \in {"transfer", "retransfer"}
  /\ LET f == files[destPath]
         old == IF f.st = "file" THEN f.data ELSE <<>>
         offset == Len(old)
         filename == CurrentArtifact.name
         kind == CurrentArtifact.kind
     IN  \E o \in TransferOutcomes(offset) :
           LET data == old \o SubSeq(RemoteContent, offset + 1, offset + o.got)
               raised == o.how # "complete"
               after == IF raised /\ Len(data) = 0 THEN Absent ELSE File(data)
           IN  /\ files' = [files EXCEPT ![destPath] = after]
               /\ dlTrace' = dlTrace
                      \o <<Event("get", o.how, offset, o.got, o.code)>>
                      \o (IF raised /\ Len(data) = 0
                          THEN <<Event("remove", "empty", 0, 0, 0)>>
                          ELSE <<>>)
               /\ IF o.code \in HTTP_CONTINUABLE_RESPONSE_CODES
                  THEN /\ downloadSucceeded' = TRUE
                       /\ dlPc' = IF dlPc = "transfer" THEN "verify"
                                  ELSE "reverify"
                       /\ UNCHANGED << gMissingOptionalPackageNames,
                                       failedThisHost, masterPc >>
                  ELSE /\ downloadSucceeded' = FALSE
                       /\ failedThisHost' = failedThisHost \cup {filename}
                       /\ IF isDownloadRequired(filename, kind)
                          THEN /\ DownloadFatal
                               /\ UNCHANGED gMissingOptionalPackageNames
                          ELSE /\ gMissingOptionalPackageNames' =
                                    Put(gMissingOptionalPackageNames, kind,
                                        (IF kind \in DOMAIN gMissingOptionalPackageNames
                                         THEN gMissingOptionalPackageNames[kind]
                                         ELSE {}) \cup {filename})
                               /\ dlPc' = "return"
                               /\ masterPc' = masterPc
  /\ UNCHANGED << configDir, hashListing, installerDiskManifest, completedCount, gBoardmap,
                  hostOptions, boardmapList, optionsFiles, moreHosts,
                  networkUsed, lastValue, lastPath, gVerifiedDownloads, masterHost, ai,
                  setsDiskManifest, remoteHash, missedBefore >>
  /\ UNCHANGED << siteVars, toolVars >>

\* the verification after the first transfer, or of the file found complete:
\* the lookup in the hash listing, the digest, and the removal on a mismatch
VerifyDownload ==
  /\ dlPc = "verify"
  /\ \E entry \in ListingEntries :
       LET f == files[destPath]
       IN  /\ hashListing' = ListingRead(hashListing, CurrentArtifact,
                                          ListedDigest(entry))
           /\ IF entry = "none" \/ f.st # "file"
              THEN /\ DownloadFatal
                   /\ UNCHANGED << files, gVerifiedDownloads, remoteHash, dlTrace >>
              ELSE LET listed == ListedDigest(entry)
                       localHash == sha256(f.data)
                   IN  /\ remoteHash' = listed
                       /\ masterPc' = masterPc
                       /\ IF localHash # listed
                          THEN /\ files' = [files EXCEPT ![destPath] =
                                              removedAfterMismatch(f)]
                               /\ dlTrace' = dlTrace \o
                                    << Event("digest", "differs", 0, 0, 0),
                                       Event("remove", "mismatch", 0, 0, 0) >>
                               /\ dlPc' = "retransfer"
                               /\ UNCHANGED gVerifiedDownloads
                          ELSE /\ gVerifiedDownloads' =
                                    IF hashVerified(downloadSucceeded, localHash, listed)
                                    THEN gVerifiedDownloads \cup {destPath}
                                    ELSE gVerifiedDownloads
                               /\ dlTrace' = Append(dlTrace,
                                                    Event("digest", "equal", 0, 0, 0))
                               /\ dlPc' = "return"
                               /\ UNCHANGED files
  /\ UNCHANGED << configDir, installerDiskManifest, completedCount, gBoardmap,
                  hostOptions, boardmapList, optionsFiles, moreHosts,
                  networkUsed, lastValue, lastPath, gMissingOptionalPackageNames, masterHost, ai,
                  setsDiskManifest, downloadSucceeded, failedThisHost,
                  missedBefore >>
  /\ UNCHANGED << siteVars, toolVars >>

\* the verification after the second transfer
ReverifyDownload ==
  /\ dlPc = "reverify"
  /\ LET f == files[destPath]
     IN  IF f.st # "file"
         THEN /\ DownloadFatal
              /\ UNCHANGED << gVerifiedDownloads, dlTrace >>
         ELSE IF sha256(f.data) # remoteHash
         THEN /\ DownloadFatal
              /\ dlTrace' = Append(dlTrace, Event("digest", "differs", 0, 0, 0))
              /\ UNCHANGED gVerifiedDownloads
         ELSE /\ gVerifiedDownloads' =
                   IF hashVerified(downloadSucceeded, sha256(f.data), remoteHash)
                   THEN gVerifiedDownloads \cup {destPath}
                   ELSE gVerifiedDownloads
              /\ dlTrace' = Append(dlTrace, Event("digest", "equal", 0, 0, 0))
              /\ dlPc' = "return"
              /\ masterPc' = masterPc
  /\ UNCHANGED << configDir, hashListing, installerDiskManifest, completedCount, gBoardmap,
                  hostOptions, boardmapList, optionsFiles, moreHosts,
                  networkUsed, lastValue, lastPath, gMissingOptionalPackageNames, masterHost, ai,
                  setsDiskManifest, files, downloadSucceeded, remoteHash,
                  failedThisHost, missedBefore >>
  /\ UNCHANGED << siteVars, toolVars >>

(***************************************************************************)
(* masterDisks.py: the mastering of one host.                              *)
(***************************************************************************)
\* a variant in which the record of the host before is kept
KeptMissingOptionalPackageNames == gMissingOptionalPackageNames

\* generateMasteringImageForHostname clears the per-host global first
ClearedMissingOptionalPackageNames == EmptyMap

\* getBoardConfiguration, called first by printHostConfigurationForDefinition:
\* the board table is loaded on the first call and the board looked up
getBoardConfiguration(boardname, rows) ==
  LET entered == IF gBoardmap = None THEN BoardsEntered(rows, 1, {})
                 ELSE gBoardmap.keys
      raises == \/ gBoardmap = None /\ BoardLoadRaises(rows, 1, {})
                \/ boardname \notin entered
  IN  [gBoardmap |-> [isNone |-> FALSE, keys |-> entered], raises |-> raises]

\* main's loop calls generateMasteringImageForHostname for the next host of
\* its list; it runs up to the first download of downloadImagesForHost: the
\* host and its board are looked up, then the release is asked for, the
\* download directories are made and the hash listing and its signature
\* fetched by downloadUrl
GenerateMasteringImageStart(hostname) ==
  /\ \/ masterPc = "idle"
     \/ masterPc = "returned" /\ moreHosts
  /\ builds < MaxBuilds
  /\ gMissingOptionalPackageNames' = ClearedMissingOptionalPackageNames
  /\ failedThisHost' = {}
  /\ missedBefore' = missedBefore \cup failedThisHost
  /\ masterHost' = hostname
  /\ hashListing' = EmptyMap
  /\ setsDiskManifest' = <<>>
  /\ installerDiskManifest' = <<>>
  /\ \E more \in BOOLEAN : moreHosts' = more
  /\ IF getHostDefinition(hostname) = 0
     THEN /\ masterPc' = "failed" /\ ai' = 0
          /\ networkUsed' = FALSE
          /\ UNCHANGED << gBoardmap, boardmapList >>
     ELSE \E rows \in (IF gBoardmap = None THEN BoardTables ELSE {boardmapList}) :
            LET board == getBoardConfiguration(
                           gHostMap[getHostDefinition(hostname)].BOARD, rows)
            IN  /\ boardmapList' = rows
                /\ gBoardmap' = board.gBoardmap
                /\ IF board.raises
                   THEN /\ masterPc' = "failed" /\ ai' = 0
                        /\ networkUsed' = FALSE
                   ELSE /\ networkUsed' = TRUE
                        /\ \E listingFetched \in BOOLEAN :
                             IF ~listingFetched
                             THEN masterPc' = "failed" /\ ai' = 0
                             ELSE masterPc' = "download" /\ ai' = 1
  /\ UNCHANGED << configDir, completedCount, hostOptions, optionsFiles,
                  lastValue, lastPath, gVerifiedDownloads, files, dlPc,
                  downloadSucceeded, remoteHash, dlTrace >>
  /\ UNCHANGED << siteVars, toolVars >>

\* the call of downloadResumableUrlIfNeeded returns; its result is not
\* looked at, and the loop of downloadImagesForHost goes on
ReturnFromDownload ==
  /\ dlPc = "return"
  /\ dlPc' = "none"
  /\ dlTrace' = <<>>
  /\ downloadSucceeded' = FALSE
  /\ remoteHash' = NoHash
  /\ IF ai < Len(Artifacts)
     THEN ai' = ai + 1 /\ masterPc' = masterPc
     ELSE ai' = ai /\ masterPc' = "stage"
  /\ UNCHANGED << configDir, hashListing, installerDiskManifest, completedCount, gBoardmap,
                  hostOptions, boardmapList, optionsFiles, moreHosts,
                  networkUsed, lastValue, lastPath, gVerifiedDownloads, gMissingOptionalPackageNames,
                  masterHost, setsDiskManifest, files, failedThisHost,
                  missedBefore >>
  /\ UNCHANGED << siteVars, toolVars >>

manifestFileInfo(filename) == [filename |-> filename]

\* a test that keeps no set file out of the sets disk
isNeverMissingOptional(setPackageFilename) == FALSE

\* the test that keeps a set file out of the sets disk
isMissingOptional(setPackageFilename) ==
  /\ "sets_package" \in DOMAIN gMissingOptionalPackageNames
  /\ setPackageFilename \in gMissingOptionalPackageNames["sets_package"]

isStaged(setPackageFilename) == ~isMissingOptional(setPackageFilename)

\* the set files and the two hash files, in the order they are staged
StagedFilenames ==
  SelectSeq(SET_PACKAGE_NAMES \o <<HASH_FILENAME, HASH_SIGNED_FILENAME>>,
            isStaged)

\* copyFileIfNeeded finds the set file it is to copy
StagedSetFilesExist ==
  \A i \in 1..Len(SET_PACKAGE_NAMES) :
    isStaged(SET_PACKAGE_NAMES[i]) =>
      files[SystemPath(masterHost, SET_PACKAGE_NAMES[i])].st = "file"

\* stageImagesForHost up to and into its call of generateSitePackage: the
\* install image, then the sets
StageSets ==
  /\ masterPc = "stage"
  /\ IF files[SystemPath(masterHost, INSTALL_IMAGE_NAME)].st = "file"
        /\ StagedSetFilesExist
     THEN /\ installerDiskManifest' =
               <<manifestFileInfo(<<INSTALL_IMAGE_NAME>>)>>
          /\ setsDiskManifest' =
               [i \in 1..Len(StagedFilenames) |->
                  manifestFileInfo(<<StagedFilenames[i]>>)]
          /\ masterPc' = "site"
          /\ generateSitePackage(masterHost)
     ELSE /\ masterPc' = "failed"
          /\ UNCHANGED << installerDiskManifest, setsDiskManifest >>
          /\ UNCHANGED siteVars
  /\ UNCHANGED toolVars
  /\ UNCHANGED << configDir, hashListing, completedCount, gBoardmap,
                  hostOptions, boardmapList, optionsFiles, moreHosts,
                  networkUsed, lastValue, lastPath, gVerifiedDownloads,
                  gMissingOptionalPackageNames,
                  masterHost, ai, files, dlPc, downloadSucceeded, remoteHash,
                  dlTrace, failedThisHost, missedBefore >>

\* the name SITE_PACKAGE_NAME_TEMPLATE gives the host's site package
SitePackageName(hostname) == <<"site", hostname, ".tgz">>

\* generateSitePackage has returned: the rest of stageImagesForHost, and the
\* return of generateMasteringImageForHostname
FinishStaging ==
  /\ masterPc = "site"
  /\ sitePc = "done"
  /\ setsDiskManifest' = setsDiskManifest \o
       << manifestFileInfo(SitePackageName(masterHost)),
          manifestFileInfo(<<SET_PACKAGE_DIR_LISTING_FILENAME>>) >>
  /\ masterPc' = "returned"
  /\ completedCount' = completedCount + 1
  /\ UNCHANGED << configDir, hashListing, installerDiskManifest, gBoardmap,
                  hostOptions, boardmapList, optionsFiles, moreHosts,
                  networkUsed, lastValue, lastPath, gVerifiedDownloads,
                  gMissingOptionalPackageNames,
                  masterHost, ai, files, dlPc, downloadSucceeded, remoteHash,
                  dlTrace, failedThisHost, missedBefore >>
  /\ UNCHANGED << siteVars, toolVars >>

\* generateSitePackage has raised: nothing catches the exception
StagingFailed ==
  /\ masterPc = "site"
  /\ sitePc = "failed"
  /\ masterPc' = "failed"
  /\ UNCHANGED << configDir, hashListing, installerDiskManifest, completedCount, gBoardmap,
                  hostOptions, boardmapList, optionsFiles, moreHosts,
                  networkUsed, lastValue, lastPath, gVerifiedDownloads, gMissingOptionalPackageNames,
                  masterHost, ai, setsDiskManifest, files, dlPc,
                  downloadSucceeded, remoteHash, dlTrace, failedThisHost,
                  missedBefore >>
  /\ UNCHANGED << siteVars, toolVars >>

\* main's list is exhausted: it prints the count of images generated
MainReport ==
  /\ masterPc = "returned"
  /\ ~moreHosts
  /\ masterPc' = "reported"
  /\ UNCHANGED << configDir, hashListing, installerDiskManifest, completedCount, gBoardmap,
                  hostOptions, boardmapList, optionsFiles, moreHosts,
                  networkUsed, lastValue, lastPath, gVerifiedDownloads,
                  gMissingOptionalPackageNames, masterHost, ai,
                  setsDiskManifest, files, dlPc, downloadSucceeded,
                  remoteHash, dlTrace, failedThisHost, missedBefore >>
  /\ UNCHANGED << siteVars, toolVars >>

(***************************************************************************)
(* The two programs.                                                       *)
(***************************************************************************)
SiteNext ==
  \/ \E hostname \in RequestedHostnames : GenerateSitePackageStart(hostname)
  \/ ProcessManifestEntry
  \/ FinishDomain
  \/ generateHostInstallSiteFile
  \/ makeTarFile

\* createSiteFiles.py
SpecSite == SiteInit /\ [][SiteNext]_vars

\* createSiteFiles.py, for the given configuration directory
SpecRebuild == RebuildInit /\ [][SiteNext]_vars

MasterNext ==
  \/ \E hostname \in RequestedHostnames : GenerateMasteringImageStart(hostname)
  \/ BeginDownload
  \/ downloadResumableUrl
  \/ VerifyDownload
  \/ ReverifyDownload
  \/ ReturnFromDownload
  \/ StageSets
  \/ ProcessManifestEntry
  \/ FinishDomain
  \/ generateHostInstallSiteFile
  \/ makeTarFile
  \/ FinishStaging
  \/ StagingFailed
  \/ MainReport

\* masterDisks.py
SpecMaster == MasterInit /\ [][MasterNext]_vars

(***************************************************************************)
(* OortCommon.py alone: the options and scope resources a tool asks for    *)
(* once OortInit has loaded the options files of the configuration.        *)
(***************************************************************************)
\* what an options file of the configuration directory may be: absent, an
\* object that defines another key, or one that defines the install URL
OptionsFileKinds == {"absent", "other", "url"}

\* the value a file gives a key is the file's own path
OptionsFileOf(path, kind) ==
  IF kind = "absent" THEN NoFile
  ELSE IF kind = "other"
  THEN JsonFile([k \in {HOSTOPTIONS_KEY_DOMAIN_NAME} |-> path])
  ELSE JsonFile([k \in {HOSTOPTIONS_KEY_INSTALLURL} |-> path])

\* the second host's board has no options file, and its own file, when
\* there is one, defines the install URL
OptionsKindChoices ==
  { kinds \in [OptionsPaths -> OptionsFileKinds] :
      /\ kinds[<<DOMAIN_BOARD, SEP, "apu4", SEP>> \o HOSTOPTIONS_FILENAME] = "absent"
      /\ kinds[<<DOMAIN_HOST, SEP, "edge02", SEP>> \o HOSTOPTIONS_FILENAME] # "other" }

\* OortInit has loaded the options files of some configuration directory
ResolverInit ==
  /\ SiteIdle
  /\ MasterIdle
  /\ configDir = "any"
  /\ \E kinds \in OptionsKindChoices :
       optionsFiles = [path \in OptionsPaths |-> OptionsFileOf(path, kinds[path])]
  /\ hostOptions = loadHostOptions(optionsFiles)

OptionKeys == {HOSTOPTIONS_KEY_INSTALLURL, HOSTOPTIONS_KEY_DOMAIN_NAME}
DefaultValue == <<"default">>

\* a call of hostOptionsValue
CallHostOptionsValue(hostname, key, defaultValue) ==
  /\ lastValue' = [hostname |-> hostname, key |-> key,
                   defaultValue |-> defaultValue,
                   value |-> hostOptionsValue(hostname, key, defaultValue)]
  /\ lastPath' = NoPathAsked
  /\ UNCHANGED << configDir, hashListing, installerDiskManifest, completedCount, gBoardmap,
                  hostOptions, boardmapList, optionsFiles, moreHosts,
                  networkUsed, gVerifiedDownloads,
                  gMissingOptionalPackageNames, masterPc, masterHost, ai,
                  setsDiskManifest, files, dlPc, downloadSucceeded,
                  remoteHash, dlTrace, failedThisHost, missedBefore >>
  /\ UNCHANGED << siteVars, toolVars >>

\* the resource names asked for: plain, or with one or two separators first
ResourceNames == { <<"x">>, <<SEP, "x">>, <<SEP, SEP, "x">> }

\* the scope names asked for: the five of DOMAINS and one that is no scope
AskedDomains == { DOMAINS[i] : i \in 1..Len(DOMAINS) } \cup {"site"}

\* a call of rootRelativePathForDomainResource
CallRootRelativePath(domain, h, domainRelativePath) ==
  /\ lastPath' = [domain |-> domain, hostname |-> gHostMap[h].HOSTNAME,
                  name |-> domainRelativePath,
                  path |-> rootRelativePathForDomainResource(
                             domain, gHostMap[h], domainRelativePath)]
  /\ lastValue' = NoValueAsked
  /\ UNCHANGED << configDir, hashListing, installerDiskManifest, completedCount, gBoardmap,
                  hostOptions, boardmapList, optionsFiles, moreHosts,
                  networkUsed, gVerifiedDownloads,
                  gMissingOptionalPackageNames, masterPc, masterHost, ai,
                  setsDiskManifest, files, dlPc, downloadSucceeded,
                  remoteHash, dlTrace, failedThisHost, missedBefore >>
  /\ UNCHANGED << siteVars, toolVars >>

ResolverNext ==
  \/ \E hostname \in RequestedHostnames, key \in OptionKeys :
       CallHostOptionsValue(hostname, key, DefaultValue)
  \/ \E domain \in AskedDomains, h \in 1..Len(gHostMap),
         name \in ResourceNames :
       CallRootRelativePath(domain, h, name)

\* OortCommon.py
SpecResolver == ResolverInit /\ [][ResolverNext]_vars

(***************************************************************************)
(* Properties of the site build.                                           *)
(***************************************************************************)
\* the precedence order of the scopes, lowest first
ScopeOrder == << "common", "realm", "role", "board", "host" >>

AllScopes == { ScopeOrder[i] : i \in 1..Len(ScopeOrder) }

\* the two files the build writes itself once the scopes are done
GeneratedPaths ==
  { <<"/", "install.site">>, <<"/", "root", "/", "post_install_hosts_append">> }

\* the file the package-list entries append to
PackageListPath == <<"/", "root", "/", "post_install_package_list.txt">>

\* the record a manifest row asks for
OwnerOfRow(row) ==
  [user |-> row.USER, group |-> row.GROUP,
   perm |-> row.PERM[1] * 64 + row.PERM[2] * 8 + row.PERM[3]]

\* the build has reached the archiving step
AtArchiveTime == sitePc \in {"archive", "done"}

\* the ownership record of p is the one of the earliest scope that lists p
FirstScopeOwns(p) ==
  /\ p \in DOMAIN gPermissionsMapping
  /\ gPermissionsMapping[p] = OwnerOfRow(firstListing[p].row)

\* the file at p is exactly the copy made from the given scope
IsCopyFrom(p, rank) ==
  /\ IsFile(tree, p)
  /\ Len(tree[p].content) = 1
  /\ tree[p].content[1].kind = "copy"
  /\ tree[p].content[1].from = ScopeOrder[rank]

\* the file at p begins with the copy made from the given scope, and whatever
\* follows was appended to the package list
IsCopyFromThenAppended(p, rank) ==
  /\ IsFile(tree, p)
  /\ Len(tree[p].content) >= 1
  /\ tree[p].content[1].kind = "copy"
  /\ tree[p].content[1].from = ScopeOrder[rank]
  /\ \A i \in 2..Len(tree[p].content) : tree[p].content[i].kind = "pkgs"
  /\ Len(tree[p].content) > 1 => p = PackageListPath

\* C1 as stated: at archive time every path listed by two or more scopes
\* has the owner of the earliest scope that lists it and, where a scope lists
\* it as a regular file, the content copied from the latest such scope
C1_AsStated ==
  AtArchiveTime =>
    \A p \in multiScope :
      /\ FirstScopeOwns(p)
      /\ p \in DOMAIN lastRegular => IsCopyFrom(p, lastRegular[p])

\* C1 amended: at archive time every path listed by two or more scopes has
\* the owner of the earliest scope that lists it; where a scope lists it as a
\* regular file and it is none of the files the build generates afterwards,
\* its content is the copy from the latest such scope, followed only by what
\* later package-list entries appended to it
C1_FirstOwnerLatestCopy ==
  AtArchiveTime =>
    \A p \in multiScope :
      /\ FirstScopeOwns(p)
      /\ (p \in DOMAIN lastRegular /\ p \notin GeneratedPaths)
           => IsCopyFromThenAppended(p, lastRegular[p])

\* an archived build in which a plain file was listed by an earlier scope,
\* copied again from a later one, and keeps the earlier scope's owner
C1_Witness ==
  /\ archiveState = "complete"
  /\ \E p \in multiScope :
       /\ p \in DOMAIN lastRegular
       /\ p \notin GeneratedPaths
       /\ firstListing[p].rank < lastRegular[p]
       /\ IsCopyFrom(p, lastRegular[p])
       /\ gPermissionsMapping[p].user = OwnerFields(ScopeOrder[firstListing[p].rank]).USER

\* C2: a row of a scope is processed only when every scope before it in the
\* order common, realm, role, board, host is finished and the scope itself
\* is not; the generated files are written, and the archive made, only
\* after all five scopes are finished
C2_ScopeOrder ==
  /\ sitePc = "domains" =>
       /\ DOMAINS[di] \notin closedScopes
       /\ \E r \in 1..Len(ScopeOrder) :
            /\ DOMAINS[di] = ScopeOrder[r]
            /\ closedScopes = { ScopeOrder[j] : j \in 1..(r - 1) }
  /\ sitePc = "domains" =>
       \A p \in DOMAIN firstListing :
         firstListing[p].rank <= Cardinality(closedScopes) + 1
  /\ (\/ sitePc \in {"archive", "done"}
      \/ archiveState # "none"
      \/ \E p \in GeneratedPaths :
           /\ IsFile(tree, p)
           /\ \E i \in 1..Len(tree[p].content) :
                tree[p].content[i].kind \in {"hosts", "script"})
       => closedScopes = AllScopes

\* the generated files are written after rows of the first and of the last
\* scope were processed
C2_Witness ==
  /\ sitePc = "archive"
  /\ \E p \in DOMAIN firstListing : firstListing[p].rank = 1
  /\ \E p \in DOMAIN lastRegular : lastRegular[p] = 5
  /\ IsFile(tree, <<"/", "install.site">>)
  /\ tree[<<"/", "install.site">>].content[1].kind = "script"

\* C3: when a call begins work on its first scope the ownership map and the
\* appended script text are empty, whatever the call before left behind, and
\* throughout the call the map holds records only for paths this call listed
C3_PerHostReset ==
  /\ (sitePc = "domains" /\ di = 1 /\ mi = 0) =>
       /\ gPermissionsMapping = EmptyMap
       /\ gInstallSiteScriptAppend = <<>>
  /\ sitePc \in {"domains", "generate", "archive", "done"} =>
       /\ DOMAIN gPermissionsMapping = DOMAIN firstListing
       /\ \A i \in 1..Len(gInstallSiteScriptAppend) :
            gInstallSiteScriptAppend[i].from \in closedScopes \cup {DOMAINS[di]}

\* a second call begins after a call that failed and left records and
\* script text behind
C3_Witness ==
  /\ builds >= 2
  /\ prevPc = "failed"
  /\ dirtyAtCall
  /\ sitePc = "domains"
  /\ di = 1
  /\ mi = 0

\* C4: once a row repeats a path of its manifest or gives a path that is
\* not absolute, the build has failed: no further row or scope is processed,
\* nothing is generated and no archive is written
C4_BadRowAborts ==
  badRow # "none" =>
    /\ sitePc = "failed"
    /\ archiveState = "none"
    /\ archive = <<>>
    /\ \A p \in GeneratedPaths :
         IsFile(tree, p) =>
           \A i \in 1..Len(tree[p].content) :
             tree[p].content[i].kind \notin {"hosts", "script"}

\* a manifest repeats a path after earlier rows of the build were recorded
C4_Witness ==
  /\ badRow = "duplicate"
  /\ sitePc = "failed"
  /\ gPermissionsMapping # EmptyMap

\* the archive members are the tree's entries, one each
ArchiveCoversTree ==
  /\ Len(archive) = Cardinality(DOMAIN tree)
  /\ \A p \in DOMAIN tree : \E i \in 1..Len(archive) : archive[i].name = <<".">> \o p

\* C5: an archive is completed only if every entry of the tree, the root
\* included, has an ownership record, and then every member carries exactly
\* the recorded user, group and mode; otherwise archiving fails
C5_ArchiveNeedsRecords ==
  /\ archiveState = "complete" =>
       /\ sitePc = "done"
       /\ <<"/">> \in DOMAIN gPermissionsMapping
       /\ \A p \in DOMAIN tree : p \in DOMAIN gPermissionsMapping
       /\ ArchiveCoversTree
       /\ \A i \in 1..Len(archive) :
            LET p == Tail(archive[i].name)
            IN  /\ archive[i].uname = gPermissionsMapping[p].user
                /\ archive[i].gname = gPermissionsMapping[p].group
                /\ archive[i].mode = gPermissionsMapping[p].perm
  /\ sitePc = "done" => archiveState = "complete"
  /\ archiveState = "partial" =>
       /\ sitePc = "failed"
       /\ \E p \in DOMAIN tree : p \notin DOMAIN gPermissionsMapping

\* archiving stopped at an entry of the tree that has no record
C5_Witness ==
  /\ archiveState = "partial"
  /\ \E p \in DOMAIN tree : p \notin DOMAIN gPermissionsMapping
  /\ Len(archive) >= 1

(***************************************************************************)
(* Properties of the download engine and of the mastering of a host.       *)
(***************************************************************************)
\* the response codes of a transfer the engine takes as successful
SuccessCodes == {200, 206}

\* the places in the history of the current call of an operation
EventsOf(op) == { i \in 1..Len(dlTrace) : dlTrace[i].op = op }

\* the place of the first digest comparison of the current call
FirstDigest ==
  CHOOSE i \in EventsOf("digest") : \A j \in EventsOf("digest") : i <= j

\* the first digest comparison of the current call found a difference
FirstDigestDiffers ==
  /\ EventsOf("digest") # {}
  /\ dlTrace[FirstDigest].why = "differs"

\* the current call has ended, by returning or by a fatal error
CallEnded == dlPc \in {"return", "fatal"}

\* the local file of the current call
LocalFile == files[destPath]

\* C6: a first digest mismatch is followed at once by one removal of the
\* local file, leaving no file, and then by one transfer that starts from
\* byte 0; when that transfer delivers the file it is followed by one more
\* digest comparison and nothing else; a transfer that breaks off or is
\* refused is followed by one comparison or by the removal of the empty file
\* it left, and nothing else; the call makes at most two transfers and two
\* comparisons and removes the file for a mismatch once; a second mismatch
\* ends the call in a fatal error with the path not in the cache
C6_OneRedownload ==
  (masterPc \in {"download", "failed"} /\ dlPc # "none" /\ FirstDigestDiffers) =>
    LET i == FirstDigest
        n == Len(dlTrace)
    IN  /\ n >= i + 1
        /\ dlTrace[i + 1].op = "remove" /\ dlTrace[i + 1].why = "mismatch"
        /\ n = i + 1 => (dlPc = "retransfer" /\ LocalFile.st = "absent")
        /\ n >= i + 2 => (dlTrace[i + 2].op = "get" /\ dlTrace[i + 2].n = 0)
        /\ (n >= i + 2 /\ dlTrace[i + 2].why = "complete") =>
             /\ dlTrace[i + 2].m = RemoteSize
             /\ n = i + 2 => (dlPc = "reverify" /\ Len(LocalFile.data) = RemoteSize)
             /\ n >= i + 3 => (n = i + 3 /\ dlTrace[i + 3].op = "digest" /\ CallEnded)
        /\ (n >= i + 3 /\ dlTrace[i + 2].why # "complete") =>
             /\ n = i + 3
             /\ \/ dlTrace[i + 3].op = "digest" /\ CallEnded
                \/ /\ dlTrace[i + 3].op = "remove"
                   /\ dlTrace[i + 3].why = "empty"
                   /\ LocalFile.st = "absent"
                   /\ dlPc \in {"reverify", "return", "fatal"}
        /\ CallEnded => n >= i + 2
        /\ Cardinality(EventsOf("get")) <= 2
        /\ Cardinality(EventsOf("digest")) <= 2
        /\ Cardinality({ j \in EventsOf("remove") : dlTrace[j].why = "mismatch" }) = 1
        /\ (n = i + 3 /\ dlTrace[i + 3].op = "digest") =>
             IF dlTrace[i + 3].why = "differs"
             THEN /\ dlPc = "fatal"
                  /\ masterPc = "failed"
                  /\ destPath \notin gVerifiedDownloads
             ELSE /\ dlPc = "return"
                  /\ destPath \in gVerifiedDownloads

\* a call ended in a fatal error after two transfers and two mismatches
C6_Witness ==
  /\ dlPc = "fatal"
  /\ FirstDigestDiffers
  /\ Cardinality(EventsOf("get")) = 2
  /\ Len(dlTrace) = FirstDigest + 3
  /\ EventsOf("get") = {FirstDigest - 1, FirstDigest + 2}
  /\ dlTrace[FirstDigest + 2].why = "complete"
  /\ dlTrace[FirstDigest + 3].op = "digest"
  /\ dlTrace[FirstDigest + 3].why = "differs"
  /\ destPath \notin gVerifiedDownloads

\* C7: with a local file of size n and a remote size m, for n < m the file
\* is kept and the transfer starts at offset n, and a transfer that runs to
\* its end receives m - n bytes and leaves a file of size m; for n > m the
\* file is removed and the transfer starts at offset 0; for n = m no
\* transfer is made and the verification comes next
C7_ResumeDecision ==
  (masterPc \in {"download", "failed"} /\ dlPc # "none"
   /\ Len(dlTrace) >= 1 /\ dlTrace[1].op = "head") =>
    LET n == dlTrace[1].n
        m == dlTrace[1].m
        len == Len(dlTrace)
    IN  /\ n < m =>
             /\ len = 1 => (dlPc = "transfer" /\ LocalFile.st = "file"
                            /\ Len(LocalFile.data) = n)
             /\ len >= 2 => (dlTrace[2].op = "get" /\ dlTrace[2].n = n)
             /\ (len >= 2 /\ dlTrace[2].why = "complete") =>
                  /\ dlTrace[2].m = m - n
                  /\ len = 2 => (dlPc \in {"verify", "fatal"}
                                 /\ LocalFile.st = "file"
                                 /\ Len(LocalFile.data) = m)
        /\ n > m =>
             /\ len >= 2
             /\ dlTrace[2].op = "remove"
             /\ len = 2 => (dlPc = "transfer" /\ LocalFile.st = "absent")
             /\ len >= 3 => (dlTrace[3].op = "get" /\ dlTrace[3].n = 0)
        /\ n = m =>
             /\ len = 1 => (dlPc \in {"verify", "fatal"} /\ LocalFile.st = "file"
                            /\ Len(LocalFile.data) = n)
             /\ len >= 2 => dlTrace[2].op = "digest"

\* a file of one byte was resumed at offset 1 and completed
C7_Witness ==
  /\ dlPc = "verify"
  /\ Len(dlTrace) = 2
  /\ dlTrace[1].op = "head"
  /\ dlTrace[1].n = 1
  /\ dlTrace[1].m = RemoteSize
  /\ dlTrace[2].op = "get"
  /\ dlTrace[2].why = "complete"
  /\ dlTrace[2].n = 1
  /\ Len(LocalFile.data) = RemoteSize

\* C8: a path joins the cache only in a step that has just found the
\* file's digest equal to the one of the hash listing, and a call for a
\* path in the cache returns success at once: no request, no digest, and
\* the files, the cache and the missing-optional record as they were
C8_CacheOnlyVerifiedAndNoOp ==
  [][ /\ \A path \in gVerifiedDownloads' \ gVerifiedDownloads :
           /\ path = destPath
           /\ files'[path].st = "file"
           /\ files'[path] = files[path]
           /\ [hex |-> files'[path].data] = remoteHash'
           /\ remoteHash' \in { ListedDigest("current"), ListedDigest("stale") }
           /\ dlTrace'[Len(dlTrace')].op = "digest"
           /\ dlTrace'[Len(dlTrace')].why = "equal"
      /\ gVerifiedDownloads \subseteq gVerifiedDownloads'
      /\ (masterPc = "download" /\ dlPc = "none"
          /\ destPath \in gVerifiedDownloads) =>
           /\ dlPc' = "return"
           /\ downloadSucceeded'
           /\ dlTrace' = <<>>
           /\ masterPc' = masterPc
           /\ files' = files
           /\ gVerifiedDownloads' = gVerifiedDownloads
           /\ gMissingOptionalPackageNames' = gMissingOptionalPackageNames
    ]_vars

\* a call for a path verified for an earlier host has just returned
C8_Witness ==
  /\ masterPc = "download"
  /\ dlPc = "return"
  /\ dlTrace = <<>>
  /\ downloadSucceeded
  /\ destPath \in gVerifiedDownloads
  /\ builds >= 1

\* the names on the allow-list of optional artifacts
OptionalNames == {"bsd.mp"}

\* the name is in the missing-optional record of the host in progress
RecordedMissing(name) ==
  \E kind \in DOMAIN gMissingOptionalPackageNames :
    name \in gMissingOptionalPackageNames[kind]

\* the current call made a transfer that the server refused
TransferFailed ==
  \E i \in EventsOf("get") : dlTrace[i].code \notin SuccessCodes

\* C9: when a transfer of an artifact on the allow-list fails, the name is
\* in the host's missing-optional record, the call returns and the host's
\* downloads go on; when a transfer of any other artifact fails the host's
\* build ends in a fatal error; a name on the allow-list whose transfer
\* failed stays in the record for the rest of the host's build
C9_OptionalFailureRecorded ==
  /\ (masterPc \in {"download", "failed"} /\ dlPc # "none" /\ TransferFailed) =>
       IF CurrentArtifact.name \in OptionalNames
       THEN /\ dlPc = "return"
            /\ masterPc = "download"
            /\ ~downloadSucceeded
            /\ RecordedMissing(CurrentArtifact.name)
            /\ destPath \notin gVerifiedDownloads
       ELSE /\ dlPc = "fatal"
            /\ masterPc = "failed"
  /\ \A name \in failedThisHost :
       IF name \in OptionalNames THEN RecordedMissing(name)
       ELSE masterPc = "failed" /\ dlPc = "fatal"

\* the downloads of a host are over, the optional artifact's transfer having
\* failed, and the build goes on to the staging
C9_Witness ==
  /\ masterPc = "stage"
  /\ "bsd.mp" \in failedThisHost
  /\ RecordedMissing("bsd.mp")

\* the filenames of the sets-disk manifest
ManifestFilenames ==
  { setsDiskManifest[i].filename : i \in 1..Len(setsDiskManifest) }

\* the install-set filenames this model knows
InstallSetNames == {"bsd", "bsd.mp"}

\* C10: the manifest a host's mastering returns has no entry for a set
\* name whose transfer failed for this host and an entry for every other
\* set name, whatever failed for earlier hosts; and a build that has all
\* its downloads behind it fails only if the site package cannot be built
C10_ManifestOmitsOnlyMissing ==
  /\ masterPc \in {"site", "returned"} =>
       \A name \in InstallSetNames :
         (<<name>> \in ManifestFilenames) <=> (name \notin failedThisHost)
  /\ masterPc = "returned" =>
       /\ failedThisHost \subseteq OptionalNames
       /\ <<"site", masterHost, ".tgz">> \in ManifestFilenames
  /\ masterPc = "stage" =>
       \A name \in InstallSetNames \ failedThisHost :
         files[<<"mirror", "amd64", name>>].st = "file"
  /\ (masterPc = "failed" /\ dlPc = "none" /\ ai >= 1) => sitePc = "failed"

\* a host's manifest lists the optional set although its transfer had
\* failed for the host before
C10_Witness ==
  /\ masterPc = "returned"
  /\ "bsd.mp" \in missedBefore
  /\ failedThisHost = {}
  /\ <<"bsd.mp">> \in ManifestFilenames
  /\ <<"bsd">> \in ManifestFilenames

\* the names of the artifacts downloadImagesForHost fetches from the mirror
RemoteArtifactNames == { Artifacts[a].name : a \in 1..Len(Artifacts) }

\* the filenames of both disk manifests
BothManifestsFilenames ==
  { installerDiskManifest[i].filename : i \in 1..Len(installerDiskManifest) }
    \cup ManifestFilenames

\* the download path of the artifact is in the verified cache
InVerifiedCache(name) == SystemPath(masterHost, name) \in gVerifiedDownloads

FailedWithHostsLeft == masterPc = "failed" /\ moreHosts /\ builds < MaxBuilds

\* C12: when the build of one host of a batch ends in a fatal error and
\* hosts remain in main's list, the build of a next host can begin
C12_BatchGoesOn ==
  FailedWithHostsLeft =>
    \E hostname \in RequestedHostnames :
      ENABLED GenerateMasteringImageStart(hostname)

\* C13: when the build of a host's site package has failed, no partly
\* written archive is at the archive's destination path
C13_NoPartialArchive == sitePc = "failed" => archiveState # "partial"

\* two rows of the board table that was read have the same board name
HasDuplicateBoardRow ==
  \E i, j \in 1..Len(boardmapList) :
    i < j /\ boardmapList[i] = boardmapList[j]

\* nothing has been asked of the mirror and nothing written for a download
NoDownloadStarted ==
  /\ ~networkUsed
  /\ dlTrace = <<>>
  /\ dlPc = "none"
  /\ ai = 0
  /\ \A p \in DOMAIN files : files[p] = Unknown

\* C14: when the board table read by generateMasteringImageForHostname has
\* two rows of one board name, the call has ended in a fatal error and no
\* download (hash listing, install image, install set) was started
C14_DuplicateBoardBeforeDownload ==
  HasDuplicateBoardRow => (masterPc = "failed" /\ NoDownloadStarted)

\* a known host's mastering has read a board table with a board entered
\* twice, and has failed
C14_Witness ==
  /\ HasDuplicateBoardRow
  /\ getHostDefinition(masterHost) # 0
  /\ masterPc = "failed"
  /\ gBoardmap # None

\* C15: when a row of a scope manifest of the host is rejected (entered
\* twice, or not absolute), no request has been made to the mirror and no
\* file of the download directory has been written for the host
C15_ConfigErrorsFirst ==
  badRow # "none" =>
    /\ ~networkUsed
    /\ \A p \in DOMAIN files : files[p].st # "file"

\* the options file of the n-th scope of the order for the host row
ScopeFile(hostdef, n) ==
  optionsFiles[<<ScopeOrder[n]>>
     \o (IF n = 1 THEN <<>>
         ELSE <<SEP, (IF n = 2 THEN hostdef.REALM
                      ELSE IF n = 3 THEN hostdef.ROLE
                      ELSE IF n = 4 THEN hostdef.BOARD
                      ELSE hostdef.HOSTNAME)>>)
     \o <<SEP, "_OPTIONS.json">>]

\* the scopes of the order whose options file exists and defines the key
DefiningScopes(hostdef, key) ==
  { n \in 1..Len(ScopeOrder) :
      ScopeFile(hostdef, n).isfile /\ key \in DOMAIN ScopeFile(hostdef, n).json }

Highest(S) == CHOOSE n \in S : \A m \in S : m <= n

\* C16: the value hostOptionsValue returns for a host, a key and a default
\* is the value the key has in the options file of the last scope, in the
\* order common, realm, role, board, host, whose file exists for the host
\* and defines the key; it is the default when no scope's file defines the
\* key or the host is not in the host table
C16_LastScopeWins ==
  lastValue # NoValueAsked =>
    LET h == getHostDefinition(lastValue.hostname)
    IN  IF h = 0 \/ DefiningScopes(gHostMap[h], lastValue.key) = {}
        THEN lastValue.value = lastValue.defaultValue
        ELSE lastValue.value =
               ScopeFile(gHostMap[h],
                         Highest(DefiningScopes(gHostMap[h], lastValue.key))
                        ).json[lastValue.key]

\* the install URL was asked for a host for which the common scope and the
\* host's own scope both define it, a scope between them has a file that
\* does not, and the host scope's value came back
C16_Witness ==
  /\ lastValue.hostname = "edge01"
  /\ lastValue.key = HOSTOPTIONS_KEY_INSTALLURL
  /\ {1, 5} \subseteq DefiningScopes(gHostMap[1], HOSTOPTIONS_KEY_INSTALLURL)
  /\ ScopeFile(gHostMap[1], 3).isfile
  /\ 3 \notin DefiningScopes(gHostMap[1], HOSTOPTIONS_KEY_INSTALLURL)
  /\ lastValue.value = <<"host", SEP, "edge01", SEP, "_OPTIONS.json">>

\* the path is that of the directory or of something below it
LiesUnder(path, dir) ==
  /\ Len(path) >= Len(dir)
  /\ SubSeq(path, 1, Len(dir)) = dir
  /\ Len(path) > Len(dir) => path[Len(dir) + 1] = SEP

\* C17: for each of the five scopes, each host and each resource name,
\* with or without separators in front, the path returned by
\* rootRelativePathForDomainResource lies under the scope's root for the
\* host
C17_UnderScopeRoot ==
  (lastPath # NoPathAsked /\ lastPath.domain \in AllScopes) =>
    LiesUnder(lastPath.path,
              DomainRoot(lastPath.domain,
                         gHostMap[getHostDefinition(lastPath.hostname)]))

\* the transfers of the call in progress that broke off after writing bytes
CutTransfers ==
  { i \in EventsOf("get") : dlTrace[i].why = "cut" /\ dlTrace[i].m > 0 }

\* C18: once a transfer of the call in progress has broken off after some
\* bytes were written, the local file stays on disk with at least the bytes
\* it had when the transfer broke off, and its path is not in the verified
\* cache while the file is shorter than the remote one
C18_PartialFileKept ==
  (dlPc # "none" /\ masterPc \in {"download", "failed"}) =>
    \A i \in CutTransfers :
      /\ LocalFile.st = "file"
      /\ Len(LocalFile.data) >= dlTrace[i].n + dlTrace[i].m
      /\ Len(LocalFile.data) < RemoteSize => destPath \notin gVerifiedDownloads

\* the transfers of the call in progress that were to resume a file and
\* whose range the server rejected
RefusedResumes ==
  { i \in EventsOf("get") : dlTrace[i].n > 0 /\ dlTrace[i].code = 416 }

\* C19: when the call has ended and the server rejected the range of a
\* transfer of it that was to resume the local file, a transfer from byte 0
\* was made after it
C19_FullRedownloadAfterRefusal ==
  CallEnded =>
    \A i \in RefusedResumes :
      \E j \in EventsOf("get") : j > i /\ dlTrace[j].n = 0

\* C20: the install script generated for a host writes the install URL
\* that hostOptionsValue gives for that host
C20_OwnInstallUrl ==
  sitePc \in {"archive", "done"} =>
    tree[INSTALL_SCRIPT_ABSPATH].content[1] =
      Chunk("script",
            hostOptionsValue(siteHost, HOSTOPTIONS_KEY_INSTALLURL,
                             ETCINSTALLURL_DEFAULT_URL),
            <<>>)

\* what one scope's manifest of the given directory does to the ownership
\* map, the tree and the script text, from its row i on
RECURSIVE AfterGivenRows(_, _, _)
AfterGivenRows(domain, i, acc) ==
  IF i > Len(GivenManifest(domain)) \/ ~acc.ok THEN acc
  ELSE LET override == GivenManifest(domain)[i]
           relPath == Tail(override.ABSPATH)
           sourcePath == <<domain, SEP>> \o relPath
           destination == <<SEP>> \o performSubstitutionsOnPath(relPath)
           transformedAbsPath == performSubstitutionsOnPath(override.ABSPATH)
           res == IF isAutogenFile(sourcePath)
                  THEN processAutogenFile(sourcePath, destination, domain,
                                          acc.tree, acc.buf)
                  ELSE copyStaticEntry(relPath, destination, domain, acc.tree,
                                       acc.buf)
       IN  AfterGivenRows(domain, i + 1,
             [mapping |-> IF transformedAbsPath \in DOMAIN acc.mapping
                          THEN acc.mapping
                          ELSE Put(acc.mapping, transformedAbsPath,
                                   [user |-> override.USER,
                                    group |-> override.GROUP,
                                    perm |-> ParseOctal(override.PERM)]),
              tree |-> res.tree, buf |-> res.buf, ok |-> res.ok])

\* the same for the first n scopes of the order, from an empty map, an
\* empty tree and no script text
RECURSIVE AfterGivenScopes(_)
AfterGivenScopes(n) ==
  IF n = 0
  THEN [mapping |-> EmptyMap, tree |-> EmptyTree, buf |-> <<>>, ok |-> TRUE]
  ELSE AfterGivenRows(ScopeOrder[n], 1, AfterGivenScopes(n - 1))

\* the tree of a build of the given directory that starts from nothing,
\* with the two generated files written
GivenTree ==
  LET scopes == AfterGivenScopes(Len(ScopeOrder))
      withHosts == Put(scopes.tree, ETCHOSTS_APPEND_ABSPATH,
                       FileNode(<<Chunk("hosts", "gHostMap", <<>>)>>))
  IN  Put(withHosts, INSTALL_SCRIPT_ABSPATH,
          FileNode(<<tree[INSTALL_SCRIPT_ABSPATH].content[1]>> \o scopes.buf))

N_BSD == <<"b", "s", "d">>
N_BSD_MP == <<"b", "s", "d", ".", "m", "p">>
N_BSD_RD == <<"b", "s", "d", ".", "r", "d">>
N_BSD_MP_OLD == <<"b", "s", "d", "-", "m", "p">>

ListedNames == {N_BSD, N_BSD_MP, N_BSD_RD, N_BSD_MP_OLD}
TargetNames == {N_BSD, N_BSD_MP, N_BSD_RD}

\* the line "SHA256 (filename) = digest"; the digest of a file is written
\* here as the name of the file it was computed from
HashLine(filename) == [filename |-> filename, hash |-> <<"sha256 of", filename>>]

\* the listings: every order of every choice of lines, no filename twice
Listings ==
  { l \in UNION { [1..n -> ListedNames] : n \in 0..Cardinality(ListedNames) } :
      \A i, j \in DOMAIN l : l[i] = l[j] => i = j }

\* the pattern, a filename read as a regular expression, matches the text
\* from position k on: a dot stands for any character
MatchesAt(pattern, text, k) ==
  /\ k + Len(pattern) - 1 <= Len(text)
  /\ \A i \in 1..Len(pattern) :
       pattern[i] = "." \/ pattern[i] = text[k + i - 1]

\* re.search('(' + pattern + ')', text)
reSearch(pattern, text) == \E k \in 1..Len(text) : MatchesAt(pattern, text, k)

\* the lines of the listing the loop stops at: the first whose filename the
\* pattern is found in
MatchingLines(listing, targetFilenamePattern) ==
  { i \in DOMAIN listing : reSearch(targetFilenamePattern, listing[i]) }

First(S) == CHOOSE i \in S : \A j \in S : i <= j

\* matchFilenamePatternInSHA256DirectoryTable: without a matching line
\* the name matchedFilename is read before it was ever bound
matchFilenamePatternInSHA256DirectoryTable(listing, targetFilenamePattern) ==
  LET found == MatchingLines(listing, targetFilenamePattern)
  IN IF found = {}
     THEN [raised |-> TRUE, filename |-> <<>>, hash |-> <<>>]
     ELSE [raised |-> FALSE,
           filename |-> listing[First(found)],
           hash |-> HashLine(listing[First(found)]).hash]

lookupFilenameInSHA256DirectoryTable(listing, targetFilename) ==
  LET patternMatch ==
        matchFilenamePatternInSHA256DirectoryTable(listing, targetFilename)
  IN [raised |-> patternMatch.raised, hash |-> patternMatch.hash]

\* a call of lookupFilenameInSHA256DirectoryTable
CallLookup(listing, targetFilename) ==
  /\ lastLookup' =
       [target |-> targetFilename, listing |-> listing,
        raised |-> lookupFilenameInSHA256DirectoryTable(listing, targetFilename).raised,
        hash |-> lookupFilenameInSHA256DirectoryTable(listing, targetFilename).hash]
  /\ UNCHANGED << siteVars, masterVars, notListingVars >>

ListingNext ==
  \E listing \in Listings, targetFilename \in TargetNames :
    CallLookup(listing, targetFilename)

SpecListing == MasterInit /\ [][ListingNext]_vars

\* the listing of the last call has a line for exactly the file asked for
ListsTarget ==
  \E i \in DOMAIN lastLookup.listing : lastLookup.listing[i] = lastLookup.target

\* C22: the digest the lookup hands to the verification is the one of the
\* line whose filename is exactly the file asked for, in whatever order the
\* lines stand and whatever other filenames contain the name or match it as
\* a pattern; without such a line the lookup fails.
C22_ExactEntryDigest ==
  lastLookup # NoLookupAsked =>
    IF ListsTarget
    THEN /\ ~lastLookup.raised
         /\ lastLookup.hash = HashLine(lastLookup.target).hash
    ELSE lastLookup.raised

(***************************************************************************)
(* OortCommon.py: openBSDVersion, on its own, with a remote source that    *)
(* moves on to later releases while the process runs.                      *)
(***************************************************************************)
DigitChar == [d \in 0..9 |->
  IF d = 0 THEN "0" ELSE IF d = 1 THEN "1" ELSE IF d = 2 THEN "2"
  ELSE IF d = 3 THEN "3" ELSE IF d = 4 THEN "4" ELSE IF d = 5 THEN "5"
  ELSE IF d = 6 THEN "6" ELSE IF d = 7 THEN "7" ELSE IF d = 8 THEN "8"
  ELSE "9"]

\* str(n), for a release number of two digits
Str(n) == << DigitChar[n \div 10], DigitChar[n % 10] >>

\* the value of the STABLE_VERSION line of the build Makefile: "7.7"
MakefileVersion(release) ==
  << DigitChar[release \div 10], ".", DigitChar[release % 10] >>

\* the base*.tgz versions of the snapshots index: the release, and while a
\* new release is being prepared the one before it as well
SnapshotBaseVersions(release) ==
  { v \in {release - 1, release} : v >= FirstRelease }

Max(S) == CHOOSE v \in S : \A w \in S : w <= v

IsNotPeriod(c) == c # "."

\* fetchOpenBSDVersion, when the request is answered
fetchOpenBSDVersion(flavor, release) ==
  IF flavor = OSFLAVOR_STABLE
  THEN SelectSeq(MakefileVersion(release), IsNotPeriod)
  ELSE Str(Max(SnapshotBaseVersions(release)))

\* openBSDVersion(hostdef) for a host of the given flavor: the stable
\* version is fetched once and kept, the current one fetched at every call
openBSDVersion(flavor, answered) ==
  /\ versionPc = "running"
  /\ LET fetches == flavor = OSFLAVOR_CURRENT
                      \/ gLatestOpenBsdStableVersion = NoVersion
         result == IF fetches THEN fetchOpenBSDVersion(flavor, remoteRelease)
                   ELSE gLatestOpenBsdStableVersion
     IN IF fetches /\ ~answered
        THEN /\ versionPc' = "failed"
             /\ UNCHANGED << gLatestOpenBsdStableVersion, firstVersion,
                             lastVersion >>
        ELSE /\ gLatestOpenBsdStableVersion' =
                  IF flavor = OSFLAVOR_STABLE THEN result
                  ELSE gLatestOpenBsdStableVersion
             /\ firstVersion' =
                  IF firstVersion[flavor] = NoVersion
                  THEN [firstVersion EXCEPT ![flavor] = result]
                  ELSE firstVersion
             /\ lastVersion' = [lastVersion EXCEPT ![flavor] = result]
             /\ UNCHANGED versionPc
  /\ UNCHANGED << siteVars, masterVars, notVersionVars, remoteRelease >>

\* the project publishes its next release
PublishRelease ==
  /\ remoteRelease < MaxRelease
  /\ remoteRelease' = remoteRelease + 1
  /\ UNCHANGED << siteVars, masterVars, notVersionVars,
                  gLatestOpenBsdStableVersion, versionPc, firstVersion,
                  lastVersion >>

VersionNext ==
  \/ \E flavor \in OSFLAVORS, answered \in BOOLEAN :
       openBSDVersion(flavor, answered)
  \/ PublishRelease

SpecVersion == MasterInit /\ [][VersionNext]_vars

\* C23: within one process every call of openBSDVersion for hosts of one
\* flavor returns what the first such call returned, also when the remote
\* source has moved on in between.
C23_VersionStaysTheSame ==
  \A f \in OSFLAVORS : lastVersion[f] = firstVersion[f]

(***************************************************************************)
(* OortCommon.py: the loading and validation of the host table, and the    *)
(* two ways a host's row is looked up afterwards.  A row is given by the   *)
(* two fields the lookups read; its other fields are well formed.          *)
(***************************************************************************)
MaxHostRows == 3

HostnameTexts == {"edge01", "edge02", ""}
AdminIpTexts == {"10.0.0.1", "10.0.0.2", "10.0.0"}

HostmapRowChoices == [HOSTNAME : HostnameTexts, ADMIN_IP : AdminIpTexts]

isIPv4(ip) == ip \in {"10.0.0.1", "10.0.0.2"}

\* the assertions of validateHostmap on one row
ValidHostRow(d) == d.HOSTNAME # "" /\ isIPv4(d.ADMIN_IP)

validateHostmap(rows) == \A i \in DOMAIN rows : ValidHostRow(rows[i])

\* OortInit: gHostMap = loadCSV(HOSTMAP_FILENAME); validateHostmap()
LoadHostmap(rows) ==
  /\ hostmapPc = "start"
  /\ hostmapRows' = rows
  /\ hostmapPc' = IF validateHostmap(rows) THEN "loaded" ELSE "failed"
  /\ UNCHANGED << siteVars, masterVars, notHostmapVars, lastHostdef >>

RECURSIVE FirstRowNamed(_, _, _)
FirstRowNamed(rows, hostname, i) ==
  IF i > Len(rows) THEN 0
  ELSE IF rows[i].HOSTNAME = hostname THEN i
  ELSE FirstRowNamed(rows, hostname, i + 1)

\* the dict generateHostInstallSiteFile fills row by row:
\* hosts[HOSTNAME] = ADMIN_IP
RECURSIVE HostsDict(_, _)
HostsDict(rows, n) ==
  IF n = 0 THEN EmptyMap
  ELSE (rows[n].HOSTNAME :> rows[n].ADMIN_IP) @@ HostsDict(rows, n - 1)

\* getHostDefinition(hostname) for a host of the table, and the line of the
\* hosts file written for the same hostname
LookUpHost(hostname) ==
  /\ hostmapPc = "loaded"
  /\ FirstRowNamed(hostmapRows, hostname, 1) # 0
  /\ lastHostdef' =
       [hostname |-> hostname,
        row |-> FirstRowNamed(hostmapRows, hostname, 1),
        hostip |-> HostsDict(hostmapRows, Len(hostmapRows))[hostname]]
  /\ UNCHANGED << siteVars, masterVars, notHostmapVars, hostmapPc,
                  hostmapRows >>

HostmapNext ==
  \/ \E rows \in UNION { [1..n -> HostmapRowChoices] : n \in 0..MaxHostRows } :
       LoadHostmap(rows)
  \/ \E hostname \in HostnameTexts : LookUpHost(hostname)

SpecHostmap == MasterInit /\ [][HostmapNext]_vars

\* C24: once the host table is loaded and validated no two of its rows
\* have the same hostname, and the record getHostDefinition returns for a
\* hostname holds the address the hosts file gives that hostname.
C24_HostnameIsKey ==
  hostmapPc = "loaded" =>
    /\ \A i, j \in DOMAIN hostmapRows :
         hostmapRows[i].HOSTNAME = hostmapRows[j].HOSTNAME => i = j
    /\ lastHostdef # NoHostAsked =>
         hostmapRows[lastHostdef.row].ADMIN_IP = lastHostdef.hostip

\* C25: while a scope's manifest is processed without error, no two of the
\* rows accepted so far have the same destination path after the
\* substitutions.
C25_DestinationsUniqueInScope ==
  sitePc = "domains" =>
    \A a, b \in duplicatePathPrevention :
      performSubstitutionsOnPath(a) = performSubstitutionsOnPath(b) => a = b

\* the set files listed in the sets-disk manifest of the host being mastered
StagedSetFiles ==
  { SET_PACKAGE_NAMES[i] : i \in 1..Len(SET_PACKAGE_NAMES) }
    \cap { name \in RemoteArtifactNames : <<name>> \in ManifestFilenames }

\* C26: every set file listed in a host's sets-disk manifest has the digest
\* that the hash listing staged with it, the one fetched for that host,
\* holds for the file; also for a later host of the run, whose listing
\* may differ while the file is taken from the verified cache.
C26_StagedDigestsMatchStagedListing ==
  (masterPc \in {"site", "returned"} /\ <<HASH_FILENAME>> \in ManifestFilenames) =>
    \A name \in StagedSetFiles :
      /\ name \in DOMAIN hashListing
      /\ files[SystemPath(masterHost, name)].st = "file"
      /\ sha256(files[SystemPath(masterHost, name)].data) = hashListing[name]

(***************************************************************************)
(* createSiteFiles.py: the paths generateHostConfigurationForDomain reads  *)
(* and writes for one manifest row, on their own.  The scope's root is     *)
(* relative to the configuration directory, the output root is the         *)
(* directory tempfile.mkdtemp made.                                        *)
(***************************************************************************)
MaxComponents == 3

PARENT == ".."

PathComponents == {"etc", "x", PARENT}

\* tempfile.mkdtemp(prefix=TMP_DIR_PREFIX)
IntermediateRoot == <<SEP, "tmp", SEP, "network.ohsnap.oort.sitegen_0">>

RECURSIVE JoinComponents(_)
\* the components with a separator between each two
JoinComponents(comps) ==
  IF comps = <<>> THEN <<>>
  ELSE IF Len(comps) = 1 THEN comps
  ELSE <<Head(comps), SEP>> \o JoinComponents(Tail(comps))

\* the PATH fields a manifest row may hold: one to MaxComponents names or
\* '..', with no, one or two separators in front
ManifestPathFields ==
  { lead \o JoinComponents(comps) :
      lead \in { <<>>, <<SEP>>, <<SEP, SEP>> },
      comps \in UNION { [1..n -> PathComponents] : n \in 1..MaxComponents } }

IsComponent(token) == token # SEP

RECURSIVE Collapse(_, _, _)
\* the components left once every '..' is resolved against the component
\* before it; above the root of an absolute path there is nothing
Collapse(comps, acc, absolute) ==
  IF comps = <<>> THEN acc
  ELSE IF Head(comps) # PARENT
  THEN Collapse(Tail(comps), Append(acc, Head(comps)), absolute)
  ELSE IF acc # <<>> /\ acc[Len(acc)] # PARENT
  THEN Collapse(Tail(comps), SubSeq(acc, 1, Len(acc) - 1), absolute)
  ELSE IF absolute THEN Collapse(Tail(comps), acc, absolute)
  ELSE Collapse(Tail(comps), Append(acc, PARENT), absolute)

\* the file a path names: whether it is absolute, and its components with
\* repeated separators and '..' resolved
Resolved(path) ==
  [absolute |-> StartsWithSep(path),
   comps |-> Collapse(SelectSeq(path, IsComponent), <<>>, StartsWithSep(path))]

\* the file a path names is the directory or lies below it
ResolvesUnder(path, dir) ==
  LET f == Resolved(path)
      d == Resolved(dir)
  IN  /\ f.absolute = d.absolute
      /\ Len(f.comps) >= Len(d.comps)
      /\ SubSeq(f.comps, 1, Len(d.comps)) = d.comps

\* one turn of generateHostConfigurationForDomain's loop, up to the paths:
\* a row whose path does not start with a separator is refused
ResolveManifestEntry(domain, h, absPath) ==
  /\ LET relPath == Tail(absPath)
         manifestDir == DomainRoot(domain, gHostMap[h])
     IN  lastEntry' =
           IF ~StartsWithSep(absPath)
           THEN [domain |-> domain, hostname |-> gHostMap[h].HOSTNAME,
                 absPath |-> absPath, refused |-> TRUE,
                 sourcePath |-> <<>>, destPath |-> <<>>]
           ELSE [domain |-> domain, hostname |-> gHostMap[h].HOSTNAME,
                 absPath |-> absPath, refused |-> FALSE,
                 sourcePath |-> PathJoin(manifestDir, relPath),
                 destPath |-> PathJoin(IntermediateRoot,
                                       performSubstitutionsOnPath(relPath))]
  /\ UNCHANGED << siteVars, masterVars, notPathVars >>

PathsNext ==
  \E d \in 1..Len(DOMAINS), h \in 1..Len(gHostMap),
     absPath \in ManifestPathFields :
    ResolveManifestEntry(DOMAINS[d], h, absPath)

SpecPaths == MasterInit /\ [][PathsNext]_vars

\* C27: for every manifest row that passes the absolute-path check, also
\* one with '..' components or two separators in front, the path read lies
\* under the root of the row's scope and the path written lies under the
\* intermediate output root.
C27_EntryStaysInsideRoots ==
  (lastEntry # NoEntryResolved /\ ~lastEntry.refused) =>
    /\ ResolvesUnder(lastEntry.sourcePath,
                     DomainRoot(lastEntry.domain,
                                gHostMap[getHostDefinition(lastEntry.hostname)]))
    /\ ResolvesUnder(lastEntry.destPath, IntermediateRoot)

(***************************************************************************)
(* createSiteFiles.py and masterDisks.py: the autoinstall directory of one *)
(* host, from build to build and into the sets-disk manifest.              *)
(***************************************************************************)
AUTOINSTALL_FILENAME == "install.conf"

\* names AUTODISKLABEL_FILENAME_PTN matches
AutodisklabelNames == {"disklabel.sd0", "disklabel.sd1", "disklabel.wd0"}

AutoinstallNames == {AUTOINSTALL_FILENAME} \cup AutodisklabelNames

\* prepareOutputDirectories: the directory is made if it is not there;
\* what an earlier run of the program left in it stays
PrepareAutoinstallDirectory ==
  /\ autoinstallPc \in {"idle", "built", "staged"}
  /\ \E leftover \in SUBSET AutoinstallNames :
       autoinstallDir' = IF autoinstallPc = "idle" THEN leftover
                         ELSE autoinstallDir
  /\ generatedFiles' = {}
  /\ stagedAutoinstall' = << >>
  /\ autoinstallPc' = "building"
  /\ UNCHANGED << siteVars, masterVars, notAutoinstallVars >>

\* processAutogenFile for a manifest row naming the autoinstall template or
\* a disklabel template: the file is written into the autoinstall directory
WriteAutoinstallFile(name) ==
  /\ autoinstallPc = "building"
  /\ name \notin generatedFiles
  /\ autoinstallDir' = autoinstallDir \cup {name}
  /\ generatedFiles' = generatedFiles \cup {name}
  /\ UNCHANGED << autoinstallPc, stagedAutoinstall >>
  /\ UNCHANGED << siteVars, masterVars, notAutoinstallVars >>

\* generateSitePackage returns
FinishAutoinstallBuild ==
  /\ autoinstallPc = "building"
  /\ autoinstallPc' = "built"
  /\ UNCHANGED << autoinstallDir, generatedFiles, stagedAutoinstall >>
  /\ UNCHANGED << siteVars, masterVars, notAutoinstallVars >>

RECURSIVE Listed(_)
\* the files os.walk finds, one after the other
Listed(names) ==
  IF names = {} THEN << >>
  ELSE LET name == CHOOSE n \in names : TRUE
       IN  <<manifestFileInfo(<<name>>)>> \o Listed(names \ {name})

\* stageImagesForHost: every file found in the directory is copied and
\* appended to the sets-disk manifest
StageAutoinstallFiles ==
  /\ autoinstallPc = "built"
  /\ stagedAutoinstall' = Listed(autoinstallDir)
  /\ autoinstallPc' = "staged"
  /\ UNCHANGED << autoinstallDir, generatedFiles >>
  /\ UNCHANGED << siteVars, masterVars, notAutoinstallVars >>

AutoinstallNext ==
  \/ PrepareAutoinstallDirectory
  \/ \E name \in AutoinstallNames : WriteAutoinstallFile(name)
  \/ FinishAutoinstallBuild
  \/ StageAutoinstallFiles

SpecAutoinstall == MasterInit /\ [][AutoinstallNext]_vars

\* C28: the autoinstall files appended to a host's sets-disk manifest are
\* exactly the files the build just finished generated; a file an earlier
\* build left in the directory is not among them.
C28_OnlyCurrentAutoinstallFiles ==
  autoinstallPc = "staged" =>
    { stagedAutoinstall[i].filename : i \in 1..Len(stagedAutoinstall) }
      = { <<name>> : name \in generatedFiles }

\* C29: when the five manifests of a host have been processed without
\* error and the hosts file and the install script are generated, every
\* path of the tree to be archived, the root and the two generated files
\* included, has an ownership record, so that the archive step succeeds.
C29_EveryArchivedPathHasRecord ==
  sitePc = "archive" =>
    \A p \in DOMAIN tree : p \in DOMAIN gPermissionsMapping

(***************************************************************************)
(* flashInstall.py: eraseAndFlashNode.  A command is the string built by   *)
(* formatting, given here by its words.                                    *)
(***************************************************************************)
MaxImages == 2

NodeName == "disk2"

\* the entries a disk manifest may hold: an image, an image with ddOptions,
\* and an entry whose file is not there
ImageInfos ==
  { [filename |-> "miniroot.img", isfile |-> TRUE, ddOptions |-> << >>],
    [filename |-> "u-boot.bin", isfile |-> TRUE, ddOptions |-> <<"seek=16">>],
    [filename |-> "gone.img", isfile |-> FALSE, ddOptions |-> << >>] }

DiskManifests == UNION { [1..n -> ImageInfos] : n \in 0..MaxImages }

Str_(words) == [type |-> "str", words |-> words]

\* 'diskutil eraseDisk MS-DOS OPENBSD %s' % nodeName
eraseCommand(nodeName) ==
  Str_(<<"diskutil", "eraseDisk", "MS-DOS", "OPENBSD", nodeName>>)

\* 'diskutil unmountDisk ' + nodeName
unmountCommand(nodeName) == Str_(<<"diskutil", "unmountDisk", nodeName>>)

\* "dd if=%s of=/dev/%s" % (imagePath, nodeName), and the options
ddCommand(imageInfo, nodeName) ==
  Str_(<<"dd", "if=", imageInfo.filename, "of=/dev/", nodeName>>
         \o imageInfo.ddOptions)

IsErase(cmd) == cmd.words[2] = "eraseDisk"
IsWrite(cmd) == cmd.words[1] = "dd"

\* what the user may type at a prompt
UserInputs == {"y", "Y", "n", ""}

\* str.lower
Lower(text) == IF text = "Y" THEN "y" ELSE text

\* a variant that takes every command as confirmed
confirmCommandAlways(cmd, userInput) == TRUE

\* confirmCommand: with the auto-accept flag nothing is asked
confirmCommand(cmd, userInput) ==
  IF gAutoAcceptYes THEN TRUE ELSE Lower(userInput) = "y"

PromptEvent(shown, userInput) ==
  [op |-> "prompt", words |-> shown, answer |-> userInput, exitCode |-> 0]
ExecEvent(cmd, exitCode) ==
  [op |-> "exec", words |-> cmd.words, answer |-> "", exitCode |-> exitCode]

\* machdep's run_command: it inserts 'sudo' or 'doas' in front of the list
\* it is given, and a string has no insert: the call raises before any
\* process is started
machdep_run_command_as_superuser(cmd, exitCode) ==
  IF cmd.type = "str"
  THEN [log |-> << >>, raised |-> TRUE]
  ELSE [log |-> <<ExecEvent(cmd, exitCode)>>, raised |-> exitCode # 0]

\* runCommand: what is added to the log, and whether an error is raised
runCommand(cmd, destructive, superuser, userInput, exitCode) ==
  LET commandPromptSymbol == IF superuser THEN "# " ELSE "$ "
      shown == <<commandPromptSymbol, " ">> \o cmd.words
      asked == IF destructive /\ ~gAutoAcceptYes
               THEN <<PromptEvent(shown, userInput)>> ELSE << >>
  IN  IF ~destructive \/ confirmCommand(shown, userInput)
      THEN IF superuser
           THEN [log |-> asked \o machdep_run_command_as_superuser(cmd, exitCode).log,
                 raised |-> machdep_run_command_as_superuser(cmd, exitCode).raised]
           ELSE [log |-> asked \o <<ExecEvent(cmd, exitCode)>>,
                 raised |-> exitCode # 0]
      ELSE [log |-> asked, raised |-> TRUE]

\* main sets the flag from the command line and, the device chosen and its
\* name typed, calls eraseAndFlashNode
StartEraseAndFlash(yes) ==
  /\ flashPc = "idle"
  /\ gAutoAcceptYes' = yes
  /\ flashPc' = "erase"
  /\ UNCHANGED << flashCommands, flashIndex, flashLog >>
  /\ UNCHANGED << siteVars, masterVars, notFlashVars >>

\* eraseNode: validateNode's assertions, then the erase command
eraseNode(nodeValid, userInput, exitCode) ==
  /\ flashPc = "erase"
  /\ LET run == runCommand(eraseCommand(NodeName), TRUE, FALSE, userInput,
                           exitCode)
     IN  IF ~nodeValid
         THEN flashPc' = "raised" /\ UNCHANGED flashLog
         ELSE /\ flashLog' = flashLog \o run.log
              /\ flashPc' = IF run.raised THEN "raised" ELSE "prepare"
  /\ UNCHANGED << gAutoAcceptYes, flashCommands, flashIndex >>
  /\ UNCHANGED << siteVars, masterVars, notFlashVars >>

\* flashNode up to its second loop: the assertions, and the list of commands
flashNodePrepare(nodeValid, manifest) ==
  /\ flashPc = "prepare"
  /\ IF nodeValid /\ \A i \in DOMAIN manifest : manifest[i].isfile
     THEN /\ flashCommands' =
               [i \in DOMAIN manifest |-> ddCommand(manifest[i], NodeName)]
          /\ flashIndex' = 1
          /\ flashPc' = IF manifest = << >> THEN "eject" ELSE "flash"
     ELSE /\ flashPc' = "raised"
          /\ UNCHANGED << flashCommands, flashIndex >>
  /\ UNCHANGED << gAutoAcceptYes, flashLog >>
  /\ UNCHANGED << siteVars, masterVars, notFlashVars >>

\* one turn of flashNode's second loop: the disk is unmounted, then the dd
\* command is run as superuser
flashNodeStep(unmountExit, userInput, exitCode) ==
  /\ flashPc = "flash"
  /\ LET unmount == runCommand(unmountCommand(NodeName), FALSE, FALSE, "",
                               unmountExit)
         run == runCommand(flashCommands[flashIndex], TRUE, TRUE, userInput,
                           exitCode)
     IN  IF unmount.raised
         THEN /\ flashLog' = flashLog \o unmount.log
              /\ flashPc' = "raised"
              /\ UNCHANGED flashIndex
         ELSE /\ flashLog' = flashLog \o unmount.log \o run.log
              /\ IF run.raised
                 THEN flashPc' = "raised" /\ UNCHANGED flashIndex
                 ELSE /\ flashIndex' = flashIndex + 1
                      /\ flashPc' = IF flashIndex = Len(flashCommands)
                                    THEN "eject" ELSE "flash"
  /\ UNCHANGED << gAutoAcceptYes, flashCommands >>
  /\ UNCHANGED << siteVars, masterVars, notFlashVars >>

\* Enter is pressed and the disk unmounted a last time
flashNodeEject(unmountExit) ==
  /\ flashPc = "eject"
  /\ LET unmount == runCommand(unmountCommand(NodeName), FALSE, FALSE, "",
                               unmountExit)
     IN  /\ flashLog' = flashLog \o unmount.log
         /\ flashPc' = IF unmount.raised THEN "raised" ELSE "finished"
  /\ UNCHANGED << gAutoAcceptYes, flashCommands, flashIndex >>
  /\ UNCHANGED << siteVars, masterVars, notFlashVars >>

ExitCodes == {0, 1}

FlashNext ==
  \/ \E yes \in BOOLEAN : StartEraseAndFlash(yes)
  \/ \E nodeValid \in BOOLEAN, userInput \in UserInputs, exitCode \in ExitCodes :
       eraseNode(nodeValid, userInput, exitCode)
  \/ \E nodeValid \in BOOLEAN, manifest \in DiskManifests :
       flashNodePrepare(nodeValid, manifest)
  \/ \E unmountExit \in ExitCodes, userInput \in UserInputs,
        exitCode \in ExitCodes :
       flashNodeStep(unmountExit, userInput, exitCode)
  \/ \E unmountExit \in ExitCodes : flashNodeEject(unmountExit)

SpecFlash == MasterInit /\ [][FlashNext]_vars

\* the erase and dd commands that were executed
DestructiveRuns ==
  { i \in DOMAIN flashLog :
      flashLog[i].op = "exec" /\ (IsErase(flashLog[i]) \/ IsWrite(flashLog[i])) }

\* the user typed y or Y at a prompt that showed just this command
ConfirmedBefore(i) ==
  \E j \in 1..(i - 1) :
    /\ flashLog[j].op = "prompt"
    /\ SubSeq(flashLog[j].words, 3, Len(flashLog[j].words)) = flashLog[i].words
    /\ flashLog[j].answer \in {"y", "Y"}

\* a prompt that was declined, or a command that exited non-zero
Stops ==
  { j \in DOMAIN flashLog :
      \/ flashLog[j].op = "prompt" /\ flashLog[j].answer \notin {"y", "Y"}
      \/ flashLog[j].op = "exec" /\ flashLog[j].exitCode # 0 }

\* C30: an erase or dd command is executed only after the user confirmed
\* that very command, or with auto-accept; every dd command executed comes
\* after an executed erase; and a declined prompt or a non-zero exit is the
\* last entry of the run, which has ended in an error.
C30_FlashSafety ==
  /\ \A i \in DestructiveRuns : gAutoAcceptYes \/ ConfirmedBefore(i)
  /\ \A i \in DestructiveRuns :
       IsWrite(flashLog[i]) =>
         \E j \in 1..(i - 1) : flashLog[j].op = "exec" /\ IsErase(flashLog[j])
  /\ \A j \in Stops : flashPc = "raised" /\ j = Len(flashLog)

\* without auto-accept the erase was confirmed and executed, the disk
\* unmounted, and the run ended at a dd command the user declined
C30_Witness ==
  /\ ~gAutoAcceptYes
  /\ flashPc = "raised"
  /\ Len(flashLog) = 4
  /\ flashLog[1].op = "prompt" /\ flashLog[1].answer = "Y"
  /\ flashLog[2].op = "exec" /\ IsErase(flashLog[2])
  /\ flashLog[4].op = "prompt" /\ flashLog[4].answer = "n"
  /\ flashLog[4].words[3] = "dd"

=============================================================================
